---- MODULE Spec2Model ----
(***************************************************************************)
(* Model of the VMA419 / DMD419 dot-matrix display drivers.                *)
(*                                                                         *)
(* The repository holds two drivers for the same 32x16 panel:              *)
(*   - the C driver (src/vma419.c, src/vma419.h), 1 bit = LED on, whose    *)
(*     scan phase (scan_cycle) is a field the caller stores;               *)
(*   - the C++ library (src/Lib/DMD419/DMD419.cpp), 0 bit = LED on, whose  *)
(*     scan phase (bDMD419Byte) is advanced by the scan routine itself.    *)
(* A run of the model is a run of one program using one of the two         *)
(* drivers: Init picks the driver, and the operations of the other driver  *)
(* are never enabled.                                                      *)
(*                                                                         *)
(* Memory is a sequence of bytes; C index i is position i+1 of the         *)
(* sequence.  A pointer to an allocated block is the sequence of the       *)
(* block's bytes (the empty sequence for a block of zero bytes), and the   *)
(* null pointer is a value that is no sequence of bytes.                   *)
(***************************************************************************)
EXTENDS Integers, Sequences, FiniteSets, TLC

VARIABLES
    driver,   \* "vma419" (C driver) or "dmd419" (C++ library)
    disp,     \* the VMA419_Display structure of the C driver
    dmd,      \* the DMD419 object of the C++ library
    lines,    \* levels of the output-enable, row-select A/B and latch lines
    bus,      \* line and SPI events emitted by the most recent operation
    last,     \* history: the most recent operation and its arguments
    prev,     \* history: the driver object as it was before that operation
    before,   \* history: the write before `last`, kept when both address
              \*          the same pixel with value 1 (else NoBefore)
    nscans,   \* history: scan calls since construction that were not
              \*          skipped, counted modulo 4
    ntext,    \* history: text-drawing calls since construction
    marquee   \* the scrolling text: the marquee fields of the DMD419 object,
              \* or the scroller variables of main.c

vars == <<driver, disp, dmd, lines, bus, last, prev, before, nscans, ntext, marquee>>

----------------------------------------------------------------------------
(* Bounds of the model *)

MaxPanelsWide == 2
MaxPanelsHigh == 2

\* text-drawing calls made on one display
MaxTextCalls == 2

\* DMD419::drawChar and DMD419::drawString calls made on one display, and
\* DMD419::selectFont calls made on a marquee
MaxGlyphCalls == 1

----------------------------------------------------------------------------
(* Program constants *)

VMA419_PIXELS_ACROSS_PER_PANEL == 32
VMA419_PIXELS_DOWN_PER_PANEL == 16
VMA419_BITSPERPIXEL == 1
VMA419_RAM_SIZE_BYTES ==
    ((VMA419_PIXELS_ACROSS_PER_PANEL * VMA419_BITSPERPIXEL) \div 8)
        * VMA419_PIXELS_DOWN_PER_PANEL

VMA419_GRAPHICS_NORMAL == 0
VMA419_GRAPHICS_INVERSE == 1
VMA419_GRAPHICS_TOGGLE == 2
VMA419_GRAPHICS_OR == 3
VMA419_GRAPHICS_NOR == 4

DMD419_PIXELS_ACROSS == 32
DMD419_PIXELS_DOWN == 16
DMD419_BITSPERPIXEL == 1
DMD419_RAM_SIZE_BYTES ==
    ((DMD419_PIXELS_ACROSS * DMD419_BITSPERPIXEL) \div 8) * DMD419_PIXELS_DOWN

GRAPHICS_NORMAL == 0
GRAPHICS_INVERSE == 1
GRAPHICS_TOGGLE == 2
GRAPHICS_OR == 3
GRAPHICS_NOR == 4

\* vma419_pixel_lookup_table[i] is position i+1
vma419_pixel_lookup_table == <<128, 64, 32, 16, 8, 4, 2, 1>>

\* bPixelLookupTable[i] is position i+1
bPixelLookupTable == <<128, 64, 32, 16, 8, 4, 2, 1>>

----------------------------------------------------------------------------
(* Machine arithmetic *)

\* conversion to uint16_t / unsigned int (16 bits on AVR)
U16(n) == n % 65536

\* conversion to uint8_t / byte
U8(n) == n % 256

\* bit k of byte b
BitOf(b, k) == (b \div (2 ^ k)) % 2

\* a | b on bytes
Or8(a, b) ==
    LET bit(k) == IF BitOf(a, k) = 1 \/ BitOf(b, k) = 1 THEN 2 ^ k ELSE 0
    IN  bit(0) + bit(1) + bit(2) + bit(3) + bit(4) + bit(5) + bit(6) + bit(7)

\* a & b on bytes
And8(a, b) ==
    LET bit(k) == IF BitOf(a, k) = 1 /\ BitOf(b, k) = 1 THEN 2 ^ k ELSE 0
    IN  bit(0) + bit(1) + bit(2) + bit(3) + bit(4) + bit(5) + bit(6) + bit(7)

\* ~a truncated to a byte
Not8(a) == 255 - a

\* the null pointer: no block of bytes (a byte is within 0..255)
NULL == << -1 >>

\* memset(p, c, n) of a fresh or existing block of n bytes
memset(c, n) == [i \in 1..n |-> c]

\* malloc(n) when it succeeds: a block of n bytes of indeterminate content
\* (both drivers overwrite the whole block before reading it); malloc(0)
\* that succeeds returns a block of no bytes, which is not the null pointer
malloc(n) == [i \in 1..n |-> 165]

\* p[i] and p[i] = v
Load(p, i) == p[i + 1]
Store(p, i, v) == [p EXCEPT ![i + 1] = v]

----------------------------------------------------------------------------
(* The C driver: src/vma419.c *)

\* the global VMA419_Display before vma419_init (static storage: all zero)
ZeroDisplay ==
    [panels_wide |-> 0, panels_high |-> 0,
     total_width_pixels |-> 0, total_height_pixels |-> 0,
     frame_buffer |-> NULL, frame_buffer_size |-> 0, scan_cycle |-> 0]

\* output lines before any driver code has run
ZeroLines == [oe |-> 0, a |-> 0, b |-> 0, latch |-> 0]

\* vma419_clear with the fill byte of the other driver's polarity (0xFF)
vma419_clear_fill_ff(d) ==
    IF d.frame_buffer # NULL
    THEN [d EXCEPT !.frame_buffer = memset(255, d.frame_buffer_size)]
    ELSE d

\* vma419_clear: memset of the whole buffer to 0x00 when there is a buffer
vma419_clear(d) ==
    IF d.frame_buffer # NULL
    THEN [d EXCEPT !.frame_buffer = memset(0, d.frame_buffer_size)]
    ELSE d

\* the argument validation of vma419_init without the test of panels_high
vma419_init_valid_width_only(null_arg, panels_wide, panels_high) ==
    ~null_arg /\ panels_wide # 0

\* vma419_init: the display after the call (ret is vma419_init_ret)
vma419_init_valid(null_arg, panels_wide, panels_high) ==
    ~null_arg /\ panels_wide # 0 /\ panels_high # 0

vma419_init_ret(null_arg, panels_wide, panels_high, malloc_ok) ==
    IF ~vma419_init_valid(null_arg, panels_wide, panels_high) THEN -1
    ELSE IF ~malloc_ok THEN -1
    ELSE 0

vma419_init(d, null_arg, panels_wide, panels_high, malloc_ok) ==
    IF ~vma419_init_valid(null_arg, panels_wide, panels_high) THEN d
    ELSE
      LET displays_total == U16(panels_wide * panels_high)
          size == U16(displays_total * VMA419_RAM_SIZE_BYTES)
          d1 == [d EXCEPT
                   !.panels_wide = panels_wide,
                   !.panels_high = panels_high,
                   !.total_width_pixels =
                       U16(panels_wide * VMA419_PIXELS_ACROSS_PER_PANEL),
                   !.total_height_pixels =
                       U16(panels_high * VMA419_PIXELS_DOWN_PER_PANEL),
                   !.frame_buffer_size = size,
                   !.frame_buffer =
                       IF malloc_ok THEN malloc(size) ELSE NULL]
      IN  IF ~malloc_ok THEN d1
          ELSE [vma419_clear(d1) EXCEPT !.scan_cycle = 0]

\* the lines after vma419_init: OE high, A, B and latch low, on success only
vma419_init_lines(l, null_arg, panels_wide, panels_high, malloc_ok) ==
    IF vma419_init_ret(null_arg, panels_wide, panels_high, malloc_ok) = 0
    THEN [oe |-> 1, a |-> 0, b |-> 0, latch |-> 0]
    ELSE l

\* vma419_deinit that frees the buffer and keeps the pointer and the size
vma419_deinit_keeps_pointer(d) == d

\* vma419_deinit
vma419_deinit(d) ==
    IF d.frame_buffer # NULL
    THEN [d EXCEPT !.frame_buffer = NULL, !.frame_buffer_size = 0]
    ELSE d

\* the heap calls of vma419_init and vma419_deinit, in order
vma419_init_events(null_arg, panels_wide, panels_high) ==
    IF ~vma419_init_valid(null_arg, panels_wide, panels_high) THEN << >>
    ELSE << <<"malloc",
              U16(U16(panels_wide * panels_high) * VMA419_RAM_SIZE_BYTES)>> >>

vma419_deinit_events(d) ==
    IF d.frame_buffer # NULL THEN << <<"free">> >> ELSE << >>

\* vma419_remap_row without the permutation (identity row mapping)
vma419_remap_row_identity(logical_y) == logical_y

\* vma419_remap_row
vma419_remap_row(logical_y) ==
    LET group == logical_y \div 4
        offset == logical_y % 4
        remapped_offset ==
            CASE offset = 0 -> 3
              [] offset = 1 -> 0
              [] offset = 2 -> 1
              [] offset = 3 -> 2
              [] OTHER -> offset
        physical_y == U16(group * 4 + remapped_offset)
    IN  IF physical_y >= VMA419_PIXELS_DOWN_PER_PANEL
        THEN logical_y
        ELSE physical_y

\* the bounds test with > in place of >= (off by one at the edges)
vma419_in_bounds_off_by_one(d, x, y) ==
    /\ d.frame_buffer # NULL
    /\ ~(x > d.total_width_pixels)
    /\ ~(y > d.total_height_pixels)

\* the bounds test that opens vma419_set_pixel and vma419_write_pixel
vma419_in_bounds(d, x, y) ==
    /\ d.frame_buffer # NULL
    /\ ~(x >= d.total_width_pixels)
    /\ ~(y >= d.total_height_pixels)

\* byte index of pixel (x, y): the addressing of vma419_write_pixel
vma419_ram_pointer(d, x, y) ==
    LET physical_y == vma419_remap_row(y)
        panel == U16((x \div VMA419_PIXELS_ACROSS_PER_PANEL)
                     + d.panels_wide
                         * (physical_y \div VMA419_PIXELS_DOWN_PER_PANEL))
        bX == U16((x % VMA419_PIXELS_ACROSS_PER_PANEL) + U16(panel * 32))
        bY == physical_y % VMA419_PIXELS_DOWN_PER_PANEL
        displays_total == U16(d.panels_wide * d.panels_high)
    IN  U16((bX \div 8) + bY * U16(displays_total * 4))

\* bit mask of pixel (x, y): the lookup of vma419_write_pixel
vma419_lookup(d, x, y) ==
    LET physical_y == vma419_remap_row(y)
        panel == U16((x \div VMA419_PIXELS_ACROSS_PER_PANEL)
                     + d.panels_wide
                         * (physical_y \div VMA419_PIXELS_DOWN_PER_PANEL))
        bX == U16((x % VMA419_PIXELS_ACROSS_PER_PANEL) + U16(panel * 32))
    IN  vma419_pixel_lookup_table[(bX % 8) + 1]

\* vma419_set_pixel; x and y arrive converted to uint16_t, color to uint8_t
vma419_set_pixel(d, x, y, color) ==
    IF ~vma419_in_bounds(d, x, y) THEN d
    ELSE
      LET physical_y == vma419_remap_row(y)
          panel == U16((x \div VMA419_PIXELS_ACROSS_PER_PANEL)
                       + d.panels_wide
                           * (physical_y \div VMA419_PIXELS_DOWN_PER_PANEL))
          bX == U16((x % VMA419_PIXELS_ACROSS_PER_PANEL) + U16(panel * 32))
          bY == physical_y % VMA419_PIXELS_DOWN_PER_PANEL
          displays_total == U16(d.panels_wide * d.panels_high)
          byte_index == U16((bX \div 8) + bY * U16(displays_total * 4))
          bit_mask == vma419_pixel_lookup_table[(bX % 8) + 1]
          old == Load(d.frame_buffer, byte_index)
      IN  IF byte_index < d.frame_buffer_size
          THEN IF color # 0
               THEN [d EXCEPT !.frame_buffer =
                        Store(@, byte_index, Or8(old, bit_mask))]
               ELSE [d EXCEPT !.frame_buffer =
                        Store(@, byte_index, And8(old, Not8(bit_mask)))]
          ELSE d

\* the switch with TOGGLE flipping the bit whatever the pixel value
vma419_graphics_mode_toggle_any(old, lookup, graphics_mode, pixel) ==
    CASE graphics_mode = VMA419_GRAPHICS_NORMAL ->
           IF pixel = 1 THEN Or8(old, lookup) ELSE And8(old, Not8(lookup))
      [] graphics_mode = VMA419_GRAPHICS_INVERSE ->
           IF pixel = 0 THEN Or8(old, lookup) ELSE And8(old, Not8(lookup))
      [] graphics_mode = VMA419_GRAPHICS_TOGGLE ->
           IF And8(old, lookup) # 0
           THEN And8(old, Not8(lookup))
           ELSE Or8(old, lookup)
      [] graphics_mode = VMA419_GRAPHICS_OR ->
           IF pixel = 1 THEN Or8(old, lookup) ELSE old
      [] graphics_mode = VMA419_GRAPHICS_NOR ->
           IF pixel = 1 /\ And8(old, lookup) # 0
           THEN And8(old, Not8(lookup))
           ELSE old
      [] OTHER -> old

\* the switch with TOGGLE only ever setting the bit
vma419_graphics_mode_toggle_sets(old, lookup, graphics_mode, pixel) ==
    CASE graphics_mode = VMA419_GRAPHICS_NORMAL ->
           IF pixel = 1 THEN Or8(old, lookup) ELSE And8(old, Not8(lookup))
      [] graphics_mode = VMA419_GRAPHICS_INVERSE ->
           IF pixel = 0 THEN Or8(old, lookup) ELSE And8(old, Not8(lookup))
      [] graphics_mode = VMA419_GRAPHICS_TOGGLE ->
           IF pixel = 1 THEN Or8(old, lookup) ELSE old
      [] graphics_mode = VMA419_GRAPHICS_OR ->
           IF pixel = 1 THEN Or8(old, lookup) ELSE old
      [] graphics_mode = VMA419_GRAPHICS_NOR ->
           IF pixel = 1 /\ And8(old, lookup) # 0
           THEN And8(old, Not8(lookup))
           ELSE old
      [] OTHER -> old

\* the switch of vma419_write_pixel: the new value of the addressed byte
vma419_graphics_mode(old, lookup, graphics_mode, pixel) ==
    CASE graphics_mode = VMA419_GRAPHICS_NORMAL ->
           IF pixel = 1 THEN Or8(old, lookup) ELSE And8(old, Not8(lookup))
      [] graphics_mode = VMA419_GRAPHICS_INVERSE ->
           IF pixel = 0 THEN Or8(old, lookup) ELSE And8(old, Not8(lookup))
      [] graphics_mode = VMA419_GRAPHICS_TOGGLE ->
           IF pixel = 1
           THEN IF And8(old, lookup) # 0
                THEN And8(old, Not8(lookup))
                ELSE Or8(old, lookup)
           ELSE old
      [] graphics_mode = VMA419_GRAPHICS_OR ->
           IF pixel = 1 THEN Or8(old, lookup) ELSE old
      [] graphics_mode = VMA419_GRAPHICS_NOR ->
           IF pixel = 1 /\ And8(old, lookup) # 0
           THEN And8(old, Not8(lookup))
           ELSE old
      [] OTHER -> old

\* vma419_write_pixel; x and y arrive converted to uint16_t
vma419_write_pixel(d, x, y, graphics_mode, pixel) ==
    IF ~vma419_in_bounds(d, x, y) THEN d
    ELSE
      LET ram_pointer == vma419_ram_pointer(d, x, y)
          lookup == vma419_lookup(d, x, y)
      IN  IF ram_pointer >= d.frame_buffer_size THEN d
          ELSE [d EXCEPT !.frame_buffer =
                  Store(@, ram_pointer,
                        vma419_graphics_mode(Load(@, ram_pointer), lookup,
                                             graphics_mode, pixel))]

\* select_row_pair: A is bit 0 and B is bit 1 of row_pair
select_row_pair(l, row_pair) ==
    [l EXCEPT !.a = row_pair % 2, !.b = (row_pair \div 2) % 2]

\* the 16 buffer indices vma419_scan_display_quarter reads for one panel;
\* each index is a sum of uint16_t and int operands, which the 16-bit
\* unsigned arithmetic of the AVR reduces modulo 65536
vma419_scan_indices(offset, row1, row2, row3) ==
    << U16(offset + 0 + row3), U16(offset + 0 + row2),
       U16(offset + 1 + row3), U16(offset + 1 + row2),
       U16(offset + 0 + row1), U16(offset + 0),
       U16(offset + 1 + row1), U16(offset + 1),
       U16(offset + 2 + row3), U16(offset + 2 + row2),
       U16(offset + 3 + row3), U16(offset + 3 + row2),
       U16(offset + 2 + row1), U16(offset + 2),
       U16(offset + 3 + row1), U16(offset + 3) >>

\* all the indices vma419_scan_display_quarter reads, in order
vma419_scan_order(d) ==
    LET displays_total == U16(d.panels_wide * d.panels_high)
        rowsize == U16(displays_total * 4)
        offset0 == U16(rowsize * d.scan_cycle)
        row1 == U16(displays_total * 16)
        row2 == U16(displays_total * 32)
        row3 == U16(displays_total * 48)
    IN  [k \in 1..(16 * displays_total) |->
            vma419_scan_indices(U16(offset0 + 4 * ((k - 1) \div 16)),
                                row1, row2, row3)[((k - 1) % 16) + 1]]

\* the events with the output re-enabled before the latch pulse
vma419_scan_events_output_before_latch(d) ==
    IF d.frame_buffer = NULL THEN << >>
    ELSE
      LET order == vma419_scan_order(d)
      IN  << <<"oe", 1>>,
             <<"a", d.scan_cycle % 2>>,
             <<"b", (d.scan_cycle \div 2) % 2>> >>
          \o [k \in 1..Len(order) |->
                <<"spi", Load(d.frame_buffer, order[k])>>]
          \o << <<"oe", 0>>, <<"latch", 1>>, <<"latch", 0>> >>

\* the events of vma419_scan_display_quarter, in order
vma419_scan_events(d) ==
    IF d.frame_buffer = NULL THEN << >>
    ELSE
      LET order == vma419_scan_order(d)
      IN  << <<"oe", 1>>,
             <<"a", d.scan_cycle % 2>>,
             <<"b", (d.scan_cycle \div 2) % 2>> >>
          \o [k \in 1..Len(order) |->
                <<"spi", Load(d.frame_buffer, order[k])>>]
          \o << <<"latch", 1>>, <<"latch", 0>>, <<"oe", 0>> >>

\* the lines after vma419_scan_display_quarter
vma419_scan_lines(d, l) ==
    IF d.frame_buffer = NULL THEN l
    ELSE [select_row_pair(l, d.scan_cycle) EXCEPT !.oe = 0, !.latch = 0]

\* vma419_scan_display_quarter: the display structure after the call
vma419_scan_display_quarter(d) == d

----------------------------------------------------------------------------
(* The C++ library: src/Lib/DMD419/DMD419.cpp *)

\* no DMD419 object exists in a program that uses the C driver
NoDMD ==
    [DisplaysWide |-> 0, DisplaysHigh |-> 0, DisplaysTotal |-> 0,
     row1 |-> 0, row2 |-> 0, row3 |-> 0,
     bDMD419ScreenRAM |-> NULL, bDMD419Byte |-> 0]

\* DMD419::clearScreen
DMD419_clearScreen(o, bNormal) ==
    IF bNormal # 0
    THEN [o EXCEPT !.bDMD419ScreenRAM =
            memset(255, DMD419_RAM_SIZE_BYTES * o.DisplaysTotal)]
    ELSE [o EXCEPT !.bDMD419ScreenRAM =
            memset(0, DMD419_RAM_SIZE_BYTES * o.DisplaysTotal)]

\* DMD419::DMD419: the object after construction (malloc succeeded)
DMD419_DMD419(panelsWide, panelsHigh) ==
    LET DisplaysTotal == U8(panelsWide * panelsHigh)
        o == [DisplaysWide |-> panelsWide, DisplaysHigh |-> panelsHigh,
              DisplaysTotal |-> DisplaysTotal,
              row1 |-> DisplaysTotal * 16,
              row2 |-> DisplaysTotal * 32,
              row3 |-> ((DisplaysTotal * 4) * 3) * 4,
              bDMD419ScreenRAM |->
                  malloc(DisplaysTotal * DMD419_RAM_SIZE_BYTES),
              bDMD419Byte |-> 0]
    IN  [DMD419_clearScreen(o, 1) EXCEPT !.bDMD419Byte = 0]

\* the lines as the constructor leaves them: A, B, SCLK and nOE low
DMD419_DMD419_lines == [oe |-> 0, a |-> 0, b |-> 0, latch |-> 0]

\* the bounds test that opens DMD419::writePixel (unsigned comparison)
DMD419_in_bounds(o, bX, bY) ==
    ~(bX >= U16(DMD419_PIXELS_ACROSS * o.DisplaysWide)
      \/ bY >= U16(DMD419_PIXELS_DOWN * o.DisplaysHigh))

\* byte index of pixel (bX, bY): the addressing of DMD419::writePixel
DMD419_RAMPointer(o, bX, bY) ==
    LET panel == U8((bX \div DMD419_PIXELS_ACROSS)
                    + o.DisplaysWide * (bY \div DMD419_PIXELS_DOWN))
        bX1 == U16((bX % DMD419_PIXELS_ACROSS) + panel * 32)
        bY1 == bY % DMD419_PIXELS_DOWN
    IN  U16((bX1 \div 8) + bY1 * (o.DisplaysTotal * 4))

\* bit mask of pixel (bX, bY): the lookup of DMD419::writePixel
DMD419_lookup(o, bX, bY) ==
    LET panel == U8((bX \div DMD419_PIXELS_ACROSS)
                    + o.DisplaysWide * (bY \div DMD419_PIXELS_DOWN))
        bX1 == U16((bX % DMD419_PIXELS_ACROSS) + panel * 32)
    IN  bPixelLookupTable[(bX1 % 8) + 1]

\* the switch with NOR testing the bit with the C driver's polarity
DMD419_graphics_mode_nor_polarity(old, lookup, bGraphicsMode, bPixel) ==
    CASE bGraphicsMode = GRAPHICS_NORMAL ->
           IF bPixel = 1 THEN And8(old, Not8(lookup)) ELSE Or8(old, lookup)
      [] bGraphicsMode = GRAPHICS_INVERSE ->
           IF bPixel = 0 THEN And8(old, Not8(lookup)) ELSE Or8(old, lookup)
      [] bGraphicsMode = GRAPHICS_TOGGLE ->
           IF bPixel = 1
           THEN IF And8(old, lookup) = 0
                THEN Or8(old, lookup)
                ELSE And8(old, Not8(lookup))
           ELSE old
      [] bGraphicsMode = GRAPHICS_OR ->
           IF bPixel = 1 THEN And8(old, Not8(lookup)) ELSE old
      [] bGraphicsMode = GRAPHICS_NOR ->
           IF bPixel = 1 /\ And8(old, lookup) # 0
           THEN And8(old, Not8(lookup))
           ELSE old
      [] OTHER -> old

\* the switch of DMD419::writePixel: the new value of the addressed byte
\* (a zero bit is a lit pixel; `true` is 1)
DMD419_graphics_mode(old, lookup, bGraphicsMode, bPixel) ==
    CASE bGraphicsMode = GRAPHICS_NORMAL ->
           IF bPixel = 1 THEN And8(old, Not8(lookup)) ELSE Or8(old, lookup)
      [] bGraphicsMode = GRAPHICS_INVERSE ->
           IF bPixel = 0 THEN And8(old, Not8(lookup)) ELSE Or8(old, lookup)
      [] bGraphicsMode = GRAPHICS_TOGGLE ->
           IF bPixel = 1
           THEN IF And8(old, lookup) = 0
                THEN Or8(old, lookup)
                ELSE And8(old, Not8(lookup))
           ELSE old
      [] bGraphicsMode = GRAPHICS_OR ->
           IF bPixel = 1 THEN And8(old, Not8(lookup)) ELSE old
      [] bGraphicsMode = GRAPHICS_NOR ->
           IF bPixel = 1 /\ And8(old, lookup) = 0
           THEN Or8(old, lookup)
           ELSE old
      [] OTHER -> old

\* DMD419::writePixel; bX and bY arrive converted to unsigned int
DMD419_writePixel(o, bX, bY, bGraphicsMode, bPixel) ==
    IF ~DMD419_in_bounds(o, bX, bY) THEN o
    ELSE
      LET uiDMD419RAMPointer == DMD419_RAMPointer(o, bX, bY)
          lookup == DMD419_lookup(o, bX, bY)
      IN  [o EXCEPT !.bDMD419ScreenRAM =
             Store(@, uiDMD419RAMPointer,
                   DMD419_graphics_mode(Load(@, uiDMD419RAMPointer), lookup,
                                        bGraphicsMode, bPixel))]

\* the 16 buffer indices DMD419::scanDisplayBySPI reads in one loop pass
DMD419_scan_indices(offset, row1, row2, row3) ==
    << offset + 0 + row3, offset + 0 + row2,
       offset + 1 + row3, offset + 1 + row2,
       offset + 0 + row1, offset + 0,
       offset + 1 + row1, offset + 1,
       offset + 2 + row3, offset + 2 + row2,
       offset + 3 + row3, offset + 3 + row2,
       offset + 2 + row1, offset + 2,
       offset + 3 + row1, offset + 3 >>

\* all the indices DMD419::scanDisplayBySPI reads, in order: the loop runs
\* DisplaysTotal times and offset is the same in every pass
DMD419_scan_order(o) ==
    LET rowsize == o.DisplaysTotal * 4
        offset == rowsize * o.bDMD419Byte
    IN  [k \in 1..(16 * o.DisplaysTotal) |->
            DMD419_scan_indices(offset, o.row1, o.row2, o.row3)
                [((k - 1) % 16) + 1]]

\* the row-select macro DMD419::scanDisplayBySPI runs in phase p: <<B, A>>
DMD419_light_rows(p) ==
    CASE p = 0 -> <<0, 0>>
      [] p = 1 -> <<0, 1>>
      [] p = 2 -> <<1, 0>>
      [] p = 3 -> <<1, 1>>

\* the events of DMD419::scanDisplayBySPI, in order; other_nCS is the level
\* read from PIN_OTHER_SPI_nCS (1 = HIGH = the bus is free)
DMD419_scan_events(o, other_nCS) ==
    IF other_nCS # 1 THEN << >>
    ELSE
      LET order == DMD419_scan_order(o)
      IN  [k \in 1..Len(order) |->
             <<"spi", Not8(Load(o.bDMD419ScreenRAM, order[k]))>>]
          \o << <<"oe", 0>>, <<"latch", 1>>, <<"latch", 0>> >>
          \o (IF o.bDMD419Byte \in 0..3
              THEN << <<"b", DMD419_light_rows(o.bDMD419Byte)[1]>>,
                      <<"a", DMD419_light_rows(o.bDMD419Byte)[2]>> >>
              ELSE << >>)
          \o << <<"oe", 1>> >>

\* the lines after a scan that blanks the rows before it reads the
\* chip-select of the other device
DMD419_scan_lines_blank_first(o, l, other_nCS) ==
    IF other_nCS # 1 THEN [l EXCEPT !.oe = 0]
    ELSE IF o.bDMD419Byte \in 0..3
         THEN [oe |-> 1, latch |-> 0,
               b |-> DMD419_light_rows(o.bDMD419Byte)[1],
               a |-> DMD419_light_rows(o.bDMD419Byte)[2]]
         ELSE [l EXCEPT !.oe = 1, !.latch = 0]

\* the lines after DMD419::scanDisplayBySPI
DMD419_scan_lines(o, l, other_nCS) ==
    IF other_nCS # 1 THEN l
    ELSE IF o.bDMD419Byte \in 0..3
         THEN [oe |-> 1, latch |-> 0,
               b |-> DMD419_light_rows(o.bDMD419Byte)[1],
               a |-> DMD419_light_rows(o.bDMD419Byte)[2]]
         ELSE [l EXCEPT !.oe = 1, !.latch = 0]

\* the switch on bDMD419Byte without the wrap from 3 to 0
DMD419_next_phase_no_wrap(p) ==
    CASE p = 0 -> 1
      [] p = 1 -> 2
      [] p = 2 -> 3
      [] p = 3 -> 3
      [] OTHER -> p

\* the scan phase after a scan that was not skipped: the switch on
\* bDMD419Byte
DMD419_next_phase(p) ==
    CASE p = 0 -> 1
      [] p = 1 -> 2
      [] p = 2 -> 3
      [] p = 3 -> 0
      [] OTHER -> p

\* DMD419::scanDisplayBySPI: the object after the call
DMD419_scanDisplayBySPI(o, other_nCS) ==
    IF other_nCS = 1
    THEN [o EXCEPT !.bDMD419Byte = DMD419_next_phase(@)]
    ELSE o

----------------------------------------------------------------------------
(* Inputs *)

\* panel counts a caller passes (0 is rejected by vma419_init)
PanelsWide == 0..MaxPanelsWide
PanelsHigh == 0..MaxPanelsHigh

\* pixel values a caller passes (uint8_t / byte): false, true, and a value
\* that is neither 0 nor 1
PixelValues == {0, 1, 2}

\* graphics modes a caller passes
GraphicsModes ==
    {GRAPHICS_NORMAL, GRAPHICS_INVERSE, GRAPHICS_TOGGLE, GRAPHICS_OR,
     GRAPHICS_NOR}

\* coordinates a caller passes, as signed values, for a display of w x h
\* pixels: the two corners, a pixel inside the last panel, the first column
\* and row past the edges, and negative coordinates
Coordinates(w, h) ==
    { <<0, 0>>, <<w - 23, h - 11>>, <<w - 1, h - 1>>,
      <<w, 0>>, <<0, h>>, <<-1, 3>>, <<3, -1>> }

\* levels PIN_OTHER_SPI_nCS can be read at (1 = HIGH = bus free)
PinLevels == {0, 1}

----------------------------------------------------------------------------
(* History *)

Op(name, x, y, mode, pixel, arg, ret) ==
    [op |-> name, x |-> x, y |-> y, mode |-> mode, pixel |-> pixel,
     arg |-> arg, ret |-> ret]

NoOp == Op("none", 0, 0, 0, 0, 0, 0)

NoBefore == [mode |-> -1, fb |-> NULL]

\* no text is scrolling
NoMarquee == [run |-> -1]

\* the record kept of `last` when the next operation is a write of value 1
\* in `mode`-independent fashion to pixel (x, y) through operation `name`
Chain(name, x, y, pixel, fb) ==
    IF /\ last.op = name /\ last.x = x /\ last.y = y
       /\ last.pixel = 1 /\ pixel = 1
    THEN [mode |-> last.mode, fb |-> fb]
    ELSE NoBefore

----------------------------------------------------------------------------
(* The state machine of pixel operations.  Init is the state after           *)
(* construction: vma419_init has returned 0 (C driver) or the DMD419         *)
(* constructor has run (C++ library), for a topology within the bounds.      *)

\* the display and the lines after a successful vma419_init(w, h)
InitialDisplay(w, h) == vma419_init(ZeroDisplay, FALSE, w, h, TRUE)
InitialLines(w, h) == vma419_init_lines(ZeroLines, FALSE, w, h, TRUE)

Init ==
    /\ driver \in {"vma419", "dmd419"}
    /\ \E w \in 1..MaxPanelsWide, h \in 1..MaxPanelsHigh :
          /\ disp = IF driver = "vma419" THEN InitialDisplay(w, h)
                    ELSE ZeroDisplay
          /\ dmd = IF driver = "dmd419" THEN DMD419_DMD419(w, h) ELSE NoDMD
          /\ lines = IF driver = "vma419" THEN InitialLines(w, h)
                     ELSE DMD419_DMD419_lines
    /\ bus = << >>
    /\ last = Op(IF driver = "vma419" THEN "vma419_init" ELSE "DMD419",
                 0, 0, 0, 0, 0, 0)
    /\ prev = IF driver = "dmd419" THEN dmd ELSE disp
    /\ before = NoBefore
    /\ nscans = 0
    /\ ntext = 0
    /\ marquee = NoMarquee

\* ---- C driver ----

Call_vma419_clear ==
    /\ driver = "vma419"
    /\ disp' = vma419_clear(disp)
    /\ last' = Op("vma419_clear", 0, 0, 0, 0, 0, 0)
    /\ prev' = disp
    /\ before' = NoBefore
    /\ UNCHANGED <<driver, dmd, lines, bus, nscans, ntext, marquee>>

Call_vma419_set_pixel ==
    /\ driver = "vma419"
    /\ \E c \in Coordinates(disp.total_width_pixels,
                            disp.total_height_pixels),
          color \in PixelValues :
          /\ disp' = vma419_set_pixel(disp, U16(c[1]), U16(c[2]), color)
          /\ last' = Op("vma419_set_pixel", U16(c[1]), U16(c[2]), 0, color,
                        0, 0)
    /\ prev' = disp
    /\ before' = NoBefore
    /\ UNCHANGED <<driver, dmd, lines, bus, nscans, ntext, marquee>>

Call_vma419_write_pixel ==
    /\ driver = "vma419"
    /\ \E c \in Coordinates(disp.total_width_pixels,
                            disp.total_height_pixels),
          graphics_mode \in GraphicsModes, pixel \in PixelValues :
          /\ disp' = vma419_write_pixel(disp, U16(c[1]), U16(c[2]),
                                        graphics_mode, pixel)
          /\ last' = Op("vma419_write_pixel", U16(c[1]), U16(c[2]),
                        graphics_mode, pixel, 0, 0)
          /\ before' = Chain("vma419_write_pixel", U16(c[1]), U16(c[2]),
                             pixel, prev.frame_buffer)
    /\ prev' = disp
    /\ UNCHANGED <<driver, dmd, lines, bus, nscans, ntext, marquee>>

\* ---- C++ library ----

Call_DMD419_clearScreen ==
    /\ driver = "dmd419"
    /\ \E bNormal \in {0, 1} :
          /\ dmd' = DMD419_clearScreen(dmd, bNormal)
          /\ last' = Op("clearScreen", 0, 0, 0, 0, bNormal, 0)
    /\ prev' = dmd
    /\ before' = NoBefore
    /\ UNCHANGED <<driver, disp, lines, bus, nscans, ntext, marquee>>

Call_DMD419_writePixel ==
    /\ driver = "dmd419"
    /\ \E c \in Coordinates(DMD419_PIXELS_ACROSS * dmd.DisplaysWide,
                            DMD419_PIXELS_DOWN * dmd.DisplaysHigh),
          bGraphicsMode \in GraphicsModes, bPixel \in PixelValues :
          /\ dmd' = DMD419_writePixel(dmd, U16(c[1]), U16(c[2]),
                                      bGraphicsMode, bPixel)
          /\ last' = Op("writePixel", U16(c[1]), U16(c[2]),
                        bGraphicsMode, bPixel, 0, 0)
          /\ before' = Chain("writePixel", U16(c[1]), U16(c[2]), bPixel,
                             prev.bDMD419ScreenRAM)
    /\ prev' = dmd
    /\ UNCHANGED <<driver, disp, lines, bus, nscans, ntext, marquee>>

Next ==
    \/ Call_vma419_clear
    \/ Call_vma419_set_pixel
    \/ Call_vma419_write_pixel
    \/ Call_DMD419_clearScreen
    \/ Call_DMD419_writePixel

Spec == Init /\ [][Next]_vars

----------------------------------------------------------------------------
(* The state machine of scanning.  Init is the same state after construction *)
(* as above; the frame buffer is drawn with vma419_set_pixel or writePixel   *)
(* in NORMAL mode and scanned by the driver's scan routine.                  *)

\* the caller's assignment disp.scan_cycle = phase (src/main.c:440)
Set_scan_cycle ==
    /\ driver = "vma419"
    /\ \E cycle \in 0..3 :
          /\ disp' = [disp EXCEPT !.scan_cycle = cycle]
          /\ last' = Op("scan_cycle", 0, 0, 0, 0, cycle, 0)
    /\ bus' = << >>
    /\ prev' = disp
    /\ before' = NoBefore
    /\ UNCHANGED <<driver, dmd, lines, nscans, ntext, marquee>>

Call_vma419_scan_display_quarter ==
    /\ driver = "vma419"
    /\ disp' = vma419_scan_display_quarter(disp)
    /\ lines' = vma419_scan_lines(disp, lines)
    /\ bus' = vma419_scan_events(disp)
    /\ last' = Op("vma419_scan_display_quarter", 0, 0, 0, 0, 0, 0)
    /\ prev' = disp
    /\ before' = NoBefore
    /\ nscans' = IF disp.frame_buffer # NULL THEN (nscans + 1) % 4 ELSE nscans
    /\ UNCHANGED <<driver, dmd, ntext, marquee>>

Call_DMD419_scanDisplayBySPI ==
    /\ driver = "dmd419"
    /\ \E other_nCS \in PinLevels :
          /\ dmd' = DMD419_scanDisplayBySPI(dmd, other_nCS)
          /\ lines' = DMD419_scan_lines(dmd, lines, other_nCS)
          /\ bus' = DMD419_scan_events(dmd, other_nCS)
          /\ last' = Op("scanDisplayBySPI", 0, 0, 0, 0, other_nCS, 0)
          /\ nscans' = IF other_nCS = 1 THEN (nscans + 1) % 4 ELSE nscans
    /\ prev' = dmd
    /\ before' = NoBefore
    /\ UNCHANGED <<driver, disp, ntext, marquee>>

\* a drawing step between scans: one lit pixel
Draw_vma419_set_pixel ==
    /\ driver = "vma419"
    /\ \E c \in Coordinates(disp.total_width_pixels,
                            disp.total_height_pixels) :
          /\ disp' = vma419_set_pixel(disp, U16(c[1]), U16(c[2]), 1)
          /\ last' = Op("vma419_set_pixel", U16(c[1]), U16(c[2]), 0, 1, 0, 0)
    /\ bus' = << >>
    /\ prev' = disp
    /\ before' = NoBefore
    /\ UNCHANGED <<driver, dmd, lines, nscans, ntext, marquee>>

Draw_DMD419_writePixel ==
    /\ driver = "dmd419"
    /\ \E c \in Coordinates(DMD419_PIXELS_ACROSS * dmd.DisplaysWide,
                            DMD419_PIXELS_DOWN * dmd.DisplaysHigh) :
          /\ dmd' = DMD419_writePixel(dmd, U16(c[1]), U16(c[2]),
                                      GRAPHICS_NORMAL, 1)
          /\ last' = Op("writePixel", U16(c[1]), U16(c[2]),
                        GRAPHICS_NORMAL, 1, 0, 0)
    /\ bus' = << >>
    /\ prev' = dmd
    /\ before' = NoBefore
    /\ UNCHANGED <<driver, disp, lines, nscans, ntext, marquee>>

NextScan ==
    \/ Set_scan_cycle
    \/ Call_vma419_scan_display_quarter
    \/ Call_DMD419_scanDisplayBySPI
    \/ Draw_vma419_set_pixel
    \/ Draw_DMD419_writePixel

SpecScan == Init /\ [][NextScan]_vars

----------------------------------------------------------------------------
(* Properties.  The expected values below are written from the statements    *)
(* being verified, independently of the operators above.                     *)

\* topology and frame buffer of the driver under test
Wide == IF driver = "vma419" THEN disp.panels_wide ELSE dmd.DisplaysWide
High == IF driver = "vma419" THEN disp.panels_high ELSE dmd.DisplaysHigh
Width == 32 * Wide
Height == 16 * High
Length == 64 * Wide * High
FB == IF driver = "vma419" THEN disp.frame_buffer ELSE dmd.bDMD419ScreenRAM
PrevFB ==
    IF driver = "vma419" THEN prev.frame_buffer ELSE prev.bDMD419ScreenRAM

\* the stated address of pixel (x, y): yr is the row after the driver's remap
RowOf(y) == IF driver = "vma419" THEN vma419_remap_row(y) ELSE y
PanelOf(x, y) == (x \div 32) + Wide * (RowOf(y) \div 16)
XOf(x, y) == (x % 32) + 32 * PanelOf(x, y)
ByteOffset(x, y) == (XOf(x, y) \div 8) + (RowOf(y) % 16) * (Wide * High * 4)
Mask(x, y) == 2 ^ (7 - (XOf(x, y) % 8))

InBounds(x, y) == x < Width /\ y < Height

\* the bit of pixel (x, y) in buffer fb, and its logical lit state
BitIn(fb, x, y) == (fb[ByteOffset(x, y) + 1] \div Mask(x, y)) % 2
Lit(fb, x, y) ==
    IF driver = "vma419" THEN BitIn(fb, x, y) = 1 ELSE BitIn(fb, x, y) = 0

\* buffers new and old agree on every bit other than the bit of pixel (x, y)
OtherBitsSame(new, old, x, y) ==
    /\ new = [old EXCEPT ![ByteOffset(x, y) + 1] = new[ByteOffset(x, y) + 1]]
    /\ new[ByteOffset(x, y) + 1] - BitIn(new, x, y) * Mask(x, y)
         = old[ByteOffset(x, y) + 1] - BitIn(old, x, y) * Mask(x, y)

\* the lit state the mode table prescribes for value v on a pixel that was
\* lit (was = TRUE) or off
Prescribed(mode, v, was) ==
    CASE mode = 0 -> v = 1
      [] mode = 1 -> v = 0
      [] mode = 2 -> IF v = 1 THEN ~was ELSE was
      [] mode = 3 -> IF v = 1 THEN TRUE ELSE was
      [] mode = 4 -> IF v = 1 /\ was THEN FALSE ELSE was

IsWritePixel == last.op \in {"vma419_write_pixel", "writePixel"}

\* C1: after vma419_write_pixel or DMD419::writePixel on an in-bounds pixel
\* with value 0 or 1, the addressed pixel is in the lit state the mode table
\* prescribes (NORMAL, INVERSE, TOGGLE, OR, NOR) and every other bit of the
\* frame buffer is as it was before the call.
C1_ModeTable ==
    (IsWritePixel /\ InBounds(last.x, last.y) /\ last.pixel \in {0, 1})
    => /\ Lit(FB, last.x, last.y)
            = Prescribed(last.mode, last.pixel, Lit(PrevFB, last.x, last.y))
       /\ OtherBitsSame(FB, PrevFB, last.x, last.y)

\* a NOR write of 1 has turned off a lit pixel of the last panel of a 2x2
\* C-driver display whose buffer holds another lit pixel
C1_Witness ==
    /\ driver = "vma419" /\ Wide = 2 /\ High = 2
    /\ last.op = "vma419_write_pixel" /\ last.mode = 4 /\ last.pixel = 1
    /\ last.x = 63 /\ last.y = 31
    /\ Lit(PrevFB, 63, 31) /\ ~Lit(FB, 63, 31) /\ Lit(FB, 0, 0)

\* C2: a write with x >= total width or y >= total height (negative
\* coordinates arrive as large unsigned values) leaves the whole display
\* object, frame buffer included, as it was, for vma419_set_pixel,
\* vma419_write_pixel in every mode and DMD419::writePixel.
C2_OutOfBoundsNoop ==
    (/\ last.op \in {"vma419_set_pixel", "vma419_write_pixel", "writePixel"}
     /\ ~InBounds(last.x, last.y))
    => /\ FB = PrevFB
       /\ Len(FB) = Length
       /\ IF driver = "vma419" THEN disp = prev ELSE dmd = prev

\* a write of 1 to the first column past the right edge of a buffer that
\* holds a lit pixel
C2_Witness ==
    /\ driver = "vma419" /\ last.op = "vma419_write_pixel"
    /\ last.x = Width /\ last.y = 0 /\ last.mode = 0 /\ last.pixel = 1
    /\ Lit(FB, 0, 0)

\* C3: for every topology, vma419_write_pixel(x, y, NORMAL, 1) on an
\* in-bounds pixel sets the bit at the stated byte offset and mask, and that
\* offset is below the frame buffer length, so that the write is never
\* dropped.
C3_Address ==
    (/\ last.op = "vma419_write_pixel" /\ last.mode = 0 /\ last.pixel = 1
     /\ InBounds(last.x, last.y))
    => /\ ByteOffset(last.x, last.y) < Len(FB)
       /\ BitIn(FB, last.x, last.y) = 1

\* the same statement on displays whose buffer size fits uint16_t, where on
\* a freshly initialised display it holds for every in-bounds (x, y) and
\* the write changes that one bit only
C3_AddressSmall ==
    Wide * High <= 1023
    => /\ C3_Address
       /\ (/\ last.op = "vma419_write_pixel" /\ last.mode = 0
           /\ last.pixel = 1 /\ InBounds(last.x, last.y))
          => Len(FB) = Length
       /\ (last.op = "vma419_init" /\ Wide * High <= 4)
          => \A x \in 0..(Width - 1), y \in 0..(Height - 1) :
                /\ ByteOffset(x, y) < Length
                /\ vma419_write_pixel(disp, x, y, 0, 1).frame_buffer
                     = [i \in 1..Length |->
                          IF i = ByteOffset(x, y) + 1 THEN Mask(x, y) ELSE 0]

\* C4: vma419_write_pixel in NORMAL mode with value v leaves the frame
\* buffer vma419_set_pixel with the same x, y and v would have left, for
\* every v in 0..255.
C4_NormalIsSetPixel ==
    (last.op = "vma419_write_pixel" /\ last.mode = 0)
    => disp.frame_buffer
         = vma419_set_pixel(prev, last.x, last.y, last.pixel).frame_buffer

\* C5: a TOGGLE write of 1 that follows a TOGGLE write of 1 to the same
\* pixel leaves the whole frame buffer as it was before the first of the two.
C5_ToggleTwice ==
    (IsWritePixel /\ last.mode = 2 /\ last.pixel = 1 /\ before.mode = 2)
    => FB = before.fb

\* two TOGGLE writes of 1 to an in-bounds pixel of the C++ library's buffer,
\* each of which changed the buffer, on a buffer that held a lit pixel
C5_Witness ==
    /\ driver = "dmd419" /\ last.op = "writePixel"
    /\ last.mode = 2 /\ last.pixel = 1 /\ before.mode = 2
    /\ InBounds(last.x, last.y) /\ last.x # 0
    /\ FB # PrevFB /\ PrevFB # before.fb
    /\ Lit(before.fb, 0, 0)

\* C6: an OR write turns no pixel off (the buffer is as before, or the one
\* addressed pixel went from off to lit); a NOR write turns no pixel on (the
\* buffer is as before, or the one addressed pixel went from lit to off);
\* and after an OR write of 1 followed by a NOR write of 1 to the same
\* in-bounds pixel that pixel is off.
C6_OrNor ==
    /\ (IsWritePixel /\ last.mode = 3)
       => \/ FB = PrevFB
          \/ /\ InBounds(last.x, last.y)
             /\ OtherBitsSame(FB, PrevFB, last.x, last.y)
             /\ ~Lit(PrevFB, last.x, last.y) /\ Lit(FB, last.x, last.y)
    /\ (IsWritePixel /\ last.mode = 4)
       => \/ FB = PrevFB
          \/ /\ InBounds(last.x, last.y)
             /\ OtherBitsSame(FB, PrevFB, last.x, last.y)
             /\ Lit(PrevFB, last.x, last.y) /\ ~Lit(FB, last.x, last.y)
    /\ (/\ IsWritePixel /\ last.mode = 4 /\ last.pixel = 1
        /\ before.mode = 3 /\ InBounds(last.x, last.y))
       => ~Lit(FB, last.x, last.y)

\* on the C++ library, an OR write of 1 lit a pixel that was off and the NOR
\* write of 1 that followed turned it off again
C6_Witness ==
    /\ driver = "dmd419" /\ last.op = "writePixel"
    /\ last.mode = 4 /\ last.pixel = 1 /\ before.mode = 3
    /\ InBounds(last.x, last.y)
    /\ ~Lit(before.fb, last.x, last.y)
    /\ Lit(PrevFB, last.x, last.y)
    /\ ~Lit(FB, last.x, last.y)

\* C7: after vma419_clear every byte of the frame buffer is 0x00 and after
\* DMD419::clearScreen(true) every byte is 0xFF (every pixel off), whatever
\* the buffer held; a further clear leaves the buffer as it is.
C7_Clear ==
    /\ last.op = "vma419_clear"
       => /\ disp.frame_buffer = [i \in 1..Length |-> 0]
          /\ \A c \in {<<0, 0>>, <<Width - 23, Height - 11>>,
                       <<Width - 1, Height - 1>>} :
                ~Lit(FB, c[1], c[2])
          /\ vma419_clear(disp) = disp
    /\ (last.op = "clearScreen" /\ last.arg = 1)
       => /\ dmd.bDMD419ScreenRAM = [i \in 1..Length |-> 255]
          /\ \A c \in {<<0, 0>>, <<Width - 23, Height - 11>>,
                       <<Width - 1, Height - 1>>} :
                ~Lit(FB, c[1], c[2])
          /\ DMD419_clearScreen(dmd, 1) = dmd

\* vma419_clear has cleared a buffer that held lit pixels
C7_Witness ==
    /\ driver = "vma419" /\ last.op = "vma419_clear"
    /\ Lit(PrevFB, 0, 0) /\ Lit(PrevFB, Width - 1, Height - 1)
    /\ ~Lit(FB, 0, 0)

\* the state after vma419_set_pixel(0,0,1) then vma419_set_pixel(31,15,1) on
\* a freshly initialised 1x1 display
C8_Scenario ==
    /\ driver = "vma419" /\ disp.panels_wide = 1 /\ disp.panels_high = 1
    /\ last.op = "vma419_set_pixel"
    /\ last.x = 31 /\ last.y = 15 /\ last.pixel = 1
    /\ prev.frame_buffer
         = vma419_set_pixel(InitialDisplay(1, 1), 0, 0, 1).frame_buffer

\* C8 as stated: in that state exactly two bits of the 64-byte buffer are
\* set, byte 0 mask 0x80 and byte 63 mask 0x01.
C8_Bytes0And63 ==
    C8_Scenario
    => disp.frame_buffer
         = [i \in 1..64 |-> IF i = 1 THEN 128 ELSE IF i = 64 THEN 1 ELSE 0]

\* C8: in that state exactly two bits of the 64-byte buffer are set, byte 12
\* mask 0x80 (row 0 is stored as row 3) and byte 59 mask 0x01 (row 15 is
\* stored as row 14).
C8_Bytes12And59 ==
    C8_Scenario
    => disp.frame_buffer
         = [i \in 1..64 |-> IF i = 13 THEN 128 ELSE IF i = 60 THEN 1 ELSE 0]

\* the two calls of the scenario have been made
C8_Witness ==
    /\ C8_Scenario
    /\ prev.frame_buffer # InitialDisplay(1, 1).frame_buffer
    /\ disp.frame_buffer # prev.frame_buffer

\* C9: a call of vma419_scan_display_quarter on an initialised display
\* advances scan_cycle to (scan_cycle + 1) mod 4 and scans the phase it
\* found, so that the calls made after vma419_init with nothing in between
\* visit the phases 0, 1, 2, 3 in order.
C9_ScanAdvances ==
    (last.op = "vma419_scan_display_quarter" /\ prev.frame_buffer # NULL)
    => /\ disp.scan_cycle = (prev.scan_cycle + 1) % 4
       /\ lines.a = prev.scan_cycle % 2
       /\ lines.b = prev.scan_cycle \div 2

\* what the code does: a call of vma419_scan_display_quarter leaves
\* scan_cycle, and the rest of the display structure, as it was, and scans
\* the phase the caller stored in scan_cycle: row-select line A carries bit
\* 0 of it and line B bit 1, and 16 bytes for each panel are sent.
C9_ScanKeepsPhase ==
    last.op = "vma419_scan_display_quarter"
    => /\ disp = prev
       /\ disp.scan_cycle \in 0..3
       /\ lines.a = disp.scan_cycle % 2
       /\ lines.b = disp.scan_cycle \div 2
       /\ Len(bus) = 16 * Wide * High + 6

\* C10: the phase of DMD419::scanDisplayBySPI is 0 after construction and is
\* always the number of scans that were not skipped, modulo 4; a scan that
\* is not skipped selects the rows of the phase it found and leaves the next
\* phase; a scan skipped because the bus is busy sends nothing and leaves
\* the phase for the next call.
C10_DMDPhase ==
    driver = "dmd419"
    => /\ dmd.bDMD419Byte = nscans
       /\ last.op = "DMD419" => dmd.bDMD419Byte = 0
       /\ (last.op = "scanDisplayBySPI" /\ last.arg = 1)
          => /\ dmd.bDMD419Byte = (prev.bDMD419Byte + 1) % 4
             /\ lines.a = prev.bDMD419Byte % 2
             /\ lines.b = prev.bDMD419Byte \div 2
             /\ bus # << >>
       /\ (last.op = "scanDisplayBySPI" /\ last.arg = 0)
          => /\ dmd.bDMD419Byte = prev.bDMD419Byte
             /\ bus = << >>

\* the scan of phase 3 has wrapped the phase to 0
C10_Witness ==
    /\ driver = "dmd419" /\ last.op = "scanDisplayBySPI" /\ last.arg = 1
    /\ prev.bDMD419Byte = 3 /\ dmd.bDMD419Byte = 0
    /\ lines.a = 1 /\ lines.b = 1

\* C11: a call of DMD419::scanDisplayBySPI that reads the other device's
\* chip-select low (bus in use) transfers no byte and leaves the
\* output-enable, latch and row-select lines, the scan phase and the frame
\* buffer (the whole object) as they were.
C11_SkipTouchesNothing ==
    [][(last'.op = "scanDisplayBySPI" /\ last'.arg = 0)
       => /\ bus' = << >>
          /\ lines' = lines
          /\ dmd' = dmd
          /\ dmd'.bDMD419Byte = dmd.bDMD419Byte
          /\ dmd'.bDMD419ScreenRAM = dmd.bDMD419ScreenRAM]_vars

\* a scan was skipped at phase 2, with the rows of phase 1 enabled by the
\* scan before and a lit pixel in the buffer
C11_Witness ==
    /\ driver = "dmd419" /\ last.op = "scanDisplayBySPI" /\ last.arg = 0
    /\ dmd.bDMD419Byte = 2 /\ prev.bDMD419Byte = 2
    /\ lines.oe = 1 /\ lines.a = 1 /\ lines.b = 0
    /\ Lit(FB, 0, 0)
    /\ bus = << >>

\* C12: on a 1x1 display the bytes vma419_scan_display_quarter streams with
\* scan_cycle = p are exactly the bytes that hold logical rows p, p+4, p+8
\* and p+12 (the bytes vma419_set_pixel / vma419_write_pixel address for
\* y in {p, p+4, p+8, p+12}), and each streamed value is the content of the
\* byte read.
C12_RowsOfPhase ==
    (/\ driver = "vma419" /\ last.op = "vma419_scan_display_quarter"
     /\ Wide = 1 /\ High = 1)
    => LET p == prev.scan_cycle
           order == vma419_scan_order(prev)
       IN  /\ {order[k] : k \in 1..16}
                = {ByteOffset(x, y) : x \in {0, 8, 16, 24},
                                      y \in {p, p + 4, p + 8, p + 12}}
           /\ \A k \in 1..16 :
                 bus[3 + k] = <<"spi", prev.frame_buffer[order[k] + 1]>>

----------------------------------------------------------------------------
(* The state machine of the C driver's life cycle.  InitLife is the state    *)
(* before any call: the display structure is a global in static storage      *)
(* (src/main.c:44).  vma419_init may be given null pointers, zero panel      *)
(* counts, and may find no memory.                                           *)

\* coordinates passed in this state machine: the two corners and the first
\* column past the right edge
LifeCoordinates(w, h) == { <<0, 0>>, <<w - 1, h - 1>>, <<w, 0>> }

InitLife ==
    /\ driver = "vma419"
    /\ disp = ZeroDisplay
    /\ dmd = NoDMD
    /\ lines = ZeroLines
    /\ bus = << >>
    /\ last = NoOp
    /\ prev = ZeroDisplay
    /\ before = NoBefore
    /\ nscans = 0
    /\ ntext = 0
    /\ marquee = NoMarquee

\* last.arg is 1 when a null pointer was passed, 2 when malloc returned NULL
Life_vma419_init ==
    /\ \E null_arg \in BOOLEAN, panels_wide \in PanelsWide,
          panels_high \in PanelsHigh, malloc_ok \in BOOLEAN :
          /\ disp' = vma419_init(disp, null_arg, panels_wide, panels_high,
                                 malloc_ok)
          /\ lines' = vma419_init_lines(lines, null_arg, panels_wide,
                                        panels_high, malloc_ok)
          /\ bus' = vma419_init_events(null_arg, panels_wide, panels_high)
          /\ last' = Op("vma419_init", panels_wide, panels_high, 0, 0,
                        IF null_arg THEN 1 ELSE IF ~malloc_ok THEN 2 ELSE 0,
                        vma419_init_ret(null_arg, panels_wide, panels_high,
                                        malloc_ok))
    /\ prev' = disp
    /\ before' = NoBefore
    /\ UNCHANGED <<driver, dmd, nscans, ntext, marquee>>

Life_vma419_deinit ==
    /\ disp' = vma419_deinit(disp)
    /\ bus' = vma419_deinit_events(disp)
    /\ last' = Op("vma419_deinit", 0, 0, 0, 0, 0, 0)
    /\ prev' = disp
    /\ before' = NoBefore
    /\ UNCHANGED <<driver, dmd, lines, nscans, ntext, marquee>>

Life_vma419_clear ==
    /\ disp' = vma419_clear(disp)
    /\ bus' = << >>
    /\ last' = Op("vma419_clear", 0, 0, 0, 0, 0, 0)
    /\ prev' = disp
    /\ before' = NoBefore
    /\ UNCHANGED <<driver, dmd, lines, nscans, ntext, marquee>>

Life_vma419_set_pixel ==
    /\ \E c \in LifeCoordinates(disp.total_width_pixels,
                                disp.total_height_pixels),
          color \in {0, 1} :
          /\ disp' = vma419_set_pixel(disp, U16(c[1]), U16(c[2]), color)
          /\ last' = Op("vma419_set_pixel", U16(c[1]), U16(c[2]), 0, color,
                        0, 0)
    /\ bus' = << >>
    /\ prev' = disp
    /\ before' = NoBefore
    /\ UNCHANGED <<driver, dmd, lines, nscans, ntext, marquee>>

Life_vma419_write_pixel ==
    /\ \E c \in LifeCoordinates(disp.total_width_pixels,
                                disp.total_height_pixels),
          graphics_mode \in GraphicsModes :
          /\ disp' = vma419_write_pixel(disp, U16(c[1]), U16(c[2]),
                                        graphics_mode, 1)
          /\ last' = Op("vma419_write_pixel", U16(c[1]), U16(c[2]),
                        graphics_mode, 1, 0, 0)
    /\ bus' = << >>
    /\ prev' = disp
    /\ before' = NoBefore
    /\ UNCHANGED <<driver, dmd, lines, nscans, ntext, marquee>>

Life_vma419_scan_display_quarter ==
    /\ disp' = vma419_scan_display_quarter(disp)
    /\ lines' = vma419_scan_lines(disp, lines)
    /\ bus' = vma419_scan_events(disp)
    /\ last' = Op("vma419_scan_display_quarter", 0, 0, 0, 0, 0, 0)
    /\ prev' = disp
    /\ before' = NoBefore
    /\ UNCHANGED <<driver, dmd, nscans, ntext, marquee>>

NextLife ==
    \/ Life_vma419_init
    \/ Life_vma419_deinit
    \/ Life_vma419_clear
    \/ Life_vma419_set_pixel
    \/ Life_vma419_write_pixel
    \/ Life_vma419_scan_display_quarter

SpecLife == InitLife /\ [][NextLife]_vars

\* C13: vma419_init returns -1 when a pointer argument is null, when
\* panels_wide or panels_high is 0, or when malloc fails, and 0 otherwise;
\* with invalid arguments the display structure is as before the call;
\* after an allocation failure the display holds no buffer; and on a
\* display that holds no buffer clear, set_pixel, write_pixel and scan leave
\* the structure as it was and send nothing.
C13_InitErrors ==
    /\ last.op = "vma419_init"
       => /\ last.ret = IF \/ last.arg \in {1, 2}
                           \/ last.x = 0 \/ last.y = 0
                        THEN -1 ELSE 0
          /\ (last.arg = 1 \/ last.x = 0 \/ last.y = 0) => disp = prev
          /\ (last.arg = 2 /\ last.x # 0 /\ last.y # 0)
             => disp.frame_buffer = NULL
          /\ last.ret = 0 => disp.frame_buffer # NULL
    /\ (/\ last.op \in {"vma419_clear", "vma419_set_pixel",
                        "vma419_write_pixel", "vma419_scan_display_quarter"}
        /\ prev.frame_buffer = NULL)
       => disp = prev /\ bus = << >>

\* vma419_set_pixel(0, 0, 1) was called on a display whose vma419_init(2, 1)
\* found no memory (the size is stored, the buffer is null)
C13_Witness ==
    /\ last.op = "vma419_set_pixel" /\ last.x = 0 /\ last.y = 0
    /\ last.pixel = 1
    /\ prev.frame_buffer = NULL /\ prev.frame_buffer_size = 128
    /\ prev.panels_wide = 2 /\ prev.panels_high = 1
    /\ disp = prev

----------------------------------------------------------------------------
(* vma419_init as a function of the panel counts, over the range of uint8_t. *)
(* The initial state holds the arguments of the call to come in last.x and   *)
(* last.y; one action makes the call on the zeroed display, the other calls  *)
(* vma419_deinit.                                                            *)

\* panel counts passed: small counts, counts whose products pass 1023 (32 x
\* 32 panels need 65536 bytes, which uint16_t holds as 0), and the largest
\* uint8_t
LargePanels == {1, 2, 3, 5, 25, 32, 41, 100, 255}

InitSizes ==
    /\ driver = "vma419"
    /\ disp = ZeroDisplay
    /\ dmd = NoDMD
    /\ lines = ZeroLines
    /\ bus = << >>
    /\ \E panels_wide \in LargePanels, panels_high \in LargePanels :
          last = Op("none", panels_wide, panels_high, 0, 0, 0, 0)
    /\ prev = ZeroDisplay
    /\ before = NoBefore
    /\ nscans = 0
    /\ ntext = 0
    /\ marquee = NoMarquee

Apply_vma419_init ==
    /\ last.op = "none"
    /\ disp' = vma419_init(disp, FALSE, last.x, last.y, TRUE)
    /\ lines' = vma419_init_lines(lines, FALSE, last.x, last.y, TRUE)
    /\ bus' = vma419_init_events(FALSE, last.x, last.y)
    /\ last' = Op("vma419_init", last.x, last.y, 0, 0, 0,
                  vma419_init_ret(FALSE, last.x, last.y, TRUE))
    /\ prev' = disp
    /\ UNCHANGED <<driver, dmd, before, nscans, ntext, marquee>>

NextSizes == Apply_vma419_init \/ Life_vma419_deinit

SpecSizes == InitSizes /\ [][NextSizes]_vars

\* C14: after a successful vma419_init(panels_wide, panels_high), for every
\* panels_wide and panels_high in 1..255, frame_buffer_size is
\* panels_wide * panels_high * 64, the buffer has that many bytes, all 0x00,
\* and scan_cycle is 0.
C14_BufferSize ==
    (last.op = "vma419_init" /\ last.ret = 0)
    => /\ disp.frame_buffer_size = last.x * last.y * 64
       /\ disp.frame_buffer = [i \in 1..(last.x * last.y * 64) |-> 0]
       /\ disp.scan_cycle = 0

\* C15 as stated: vma419_deinit leaves the display with no buffer and
\* size 0.
C15_DeinitSizeZero ==
    last.op = "vma419_deinit"
    => disp.frame_buffer = NULL /\ disp.frame_buffer_size = 0

\* C15: vma419_deinit on a display that holds a buffer frees it once and
\* leaves no buffer and size 0; on a display that holds no buffer (never
\* initialised, allocation failed, or already deinitialised) vma419_deinit,
\* clear, set_pixel, write_pixel and scan_display_quarter free nothing and
\* leave the structure, the buffer and every output line as they were, so
\* that free is called only on a live buffer, which is then forgotten.
C15_Deinit ==
    [][/\ (last'.op = "vma419_deinit" /\ disp.frame_buffer # NULL)
          => /\ bus' = << <<"free">> >>
             /\ disp'.frame_buffer = NULL
             /\ disp'.frame_buffer_size = 0
             /\ lines' = lines
       /\ (/\ last'.op \in {"vma419_deinit", "vma419_clear",
                            "vma419_set_pixel", "vma419_write_pixel",
                            "vma419_scan_display_quarter"}
           /\ disp.frame_buffer = NULL)
          => /\ bus' = << >>
             /\ disp' = disp
             /\ lines' = lines]_vars

\* vma419_write_pixel was called on a display that was initialised and then
\* deinitialised (dimensions stored, no buffer, size 0) while the lines
\* still select the rows of an earlier scan
C15_Witness ==
    /\ last.op = "vma419_write_pixel" /\ last.x = 0 /\ last.y = 0
    /\ prev.frame_buffer = NULL /\ prev.frame_buffer_size = 0
    /\ prev.panels_wide = 1 /\ prev.panels_high = 1
    /\ lines.oe = 0
    /\ disp = prev

----------------------------------------------------------------------------
(* The 5x7 font of the C driver: src/VMA419_Font.h *)

VMA419_FONT_WIDTH == 5
VMA419_FONT_HEIGHT == 7
VMA419_FONT_FIRST_CHAR == 32
VMA419_FONT_CHAR_COUNT == 95

\* the font data: 5 column bytes for each of the characters 32..126, bit 0
\* the top row
vma419_font_5x7 ==
    << 0, 0, 0, 0, 0, 0, 0, 95, 0, 0, 0, 7, 0, 7, 0,
       20, 127, 20, 127, 20, 36, 42, 127, 42, 18, 35, 19, 8, 100, 98,
       54, 73, 85, 34, 80, 0, 5, 3, 0, 0, 0, 28, 34, 65, 0,
       0, 65, 34, 28, 0, 8, 42, 28, 42, 8, 8, 8, 62, 8, 8,
       0, 80, 48, 0, 0, 8, 8, 8, 8, 8, 0, 96, 96, 0, 0,
       32, 16, 8, 4, 2, 62, 81, 73, 69, 62, 0, 66, 127, 64, 0,
       66, 97, 81, 73, 70, 33, 65, 69, 75, 49, 24, 20, 18, 127, 16,
       39, 69, 69, 69, 57, 60, 74, 73, 73, 48, 1, 113, 9, 5, 3,
       54, 73, 73, 73, 54, 6, 73, 73, 41, 30, 0, 54, 54, 0, 0,
       0, 86, 54, 0, 0, 0, 8, 20, 34, 65, 20, 20, 20, 20, 20,
       65, 34, 20, 8, 0, 2, 1, 81, 9, 6, 50, 73, 121, 65, 62,
       126, 17, 17, 17, 126, 127, 73, 73, 73, 54, 62, 65, 65, 65, 34,
       127, 65, 65, 34, 28, 127, 73, 73, 73, 65, 127, 9, 9, 1, 1,
       62, 65, 65, 81, 50, 127, 8, 8, 8, 127, 0, 65, 127, 65, 0,
       32, 64, 65, 63, 1, 127, 8, 20, 34, 65, 127, 64, 64, 64, 64,
       127, 2, 4, 2, 127, 127, 4, 8, 16, 127, 62, 65, 65, 65, 62,
       127, 9, 9, 9, 6, 62, 65, 81, 33, 94, 127, 9, 25, 41, 70,
       70, 73, 73, 73, 49, 1, 1, 127, 1, 1, 63, 64, 64, 64, 63,
       31, 32, 64, 32, 31, 127, 32, 24, 32, 127, 99, 20, 8, 20, 99,
       3, 4, 120, 4, 3, 97, 81, 73, 69, 67, 0, 0, 127, 65, 65,
       2, 4, 8, 16, 32, 65, 65, 127, 0, 0, 4, 2, 1, 2, 4,
       64, 64, 64, 64, 64, 0, 1, 2, 4, 0, 32, 84, 84, 84, 120,
       127, 72, 68, 68, 56, 56, 68, 68, 68, 32, 56, 68, 68, 72, 127,
       56, 84, 84, 84, 24, 8, 126, 9, 1, 2, 8, 20, 84, 84, 60,
       127, 8, 4, 4, 120, 0, 68, 125, 64, 0, 32, 64, 68, 61, 0,
       0, 127, 16, 40, 68, 0, 65, 127, 64, 0, 124, 4, 24, 4, 120,
       124, 8, 4, 4, 120, 56, 68, 68, 68, 56, 124, 20, 20, 20, 8,
       8, 20, 20, 24, 124, 124, 8, 4, 4, 8, 72, 84, 84, 84, 32,
       4, 63, 68, 64, 32, 60, 64, 64, 32, 124, 28, 32, 64, 32, 28,
       60, 64, 48, 64, 60, 68, 40, 16, 40, 68, 12, 80, 80, 80, 60,
       68, 100, 84, 76, 68, 0, 8, 54, 65, 0, 0, 0, 127, 0, 0,
       0, 65, 54, 8, 0, 8, 8, 42, 28, 8 >>

\* int16_t arithmetic
I16(n) == ((n + 32768) % 65536) - 32768

\* pgm_read_byte(&vma419_font_5x7[i])
pgm_read_byte(i) == vma419_font_5x7[i + 1]

\* the range test that opens vma419_font_draw_char; c is the value of the
\* char argument (negative for bytes 128..255 when char is signed)
vma419_font_in_range(c) ==
    ~(c < VMA419_FONT_FIRST_CHAR
      \/ c >= VMA419_FONT_FIRST_CHAR + VMA419_FONT_CHAR_COUNT)

\* the value returned with the width at every position
vma419_font_draw_char_ret_width_anywhere(x, y, c) == VMA419_FONT_WIDTH

\* vma419_font_draw_char: the value returned
vma419_font_draw_char_ret(x, y, c) ==
    IF ~vma419_font_in_range(c) THEN 0
    ELSE IF x >= 32 \/ y >= 16 THEN 0
    ELSE IF (x + VMA419_FONT_WIDTH) < 0 \/ (y + VMA419_FONT_HEIGHT) < 0
         THEN VMA419_FONT_WIDTH
    ELSE VMA419_FONT_WIDTH

\* the display after vma419_set_pixel(d, x, y, 1) for every <<x, y>> of
\* pixels: each call ORs the pixel's bit into the pixel's byte, so each byte
\* ends as its old value OR the bits of the pixels stored in it, in whatever
\* order the calls are made
vma419_set_pixels(d, pixels) ==
    LET stored == { p \in pixels :
                      /\ vma419_in_bounds(d, p[1], p[2])
                      /\ vma419_ram_pointer(d, p[1], p[2])
                           < d.frame_buffer_size }
        stores == { <<vma419_ram_pointer(d, p[1], p[2]),
                      vma419_lookup(d, p[1], p[2])>> : p \in stored }
        bit(i, k) ==
            IF \/ BitOf(Load(d.frame_buffer, i), k) = 1
               \/ <<i, 2 ^ k>> \in stores
            THEN 2 ^ k ELSE 0
    IN  IF stored = {} THEN d
        ELSE [d EXCEPT !.frame_buffer =
                 [j \in DOMAIN @ |->
                    bit(j - 1, 0) + bit(j - 1, 1) + bit(j - 1, 2)
                    + bit(j - 1, 3) + bit(j - 1, 4) + bit(j - 1, 5)
                    + bit(j - 1, 6) + bit(j - 1, 7)]]

\* vma419_font_draw_char: the pixels it passes to vma419_set_pixel, which
\* are those of the two loops (col 0..4, row 0..6) that lie in 0..31 by
\* 0..15 and whose bit of the column byte is set
vma419_font_draw_char_pixels(x, y, c) ==
    IF ~vma419_font_in_range(c) THEN {}
    ELSE IF x >= 32 \/ y >= 16 THEN {}
    ELSE IF (x + VMA419_FONT_WIDTH) < 0 \/ (y + VMA419_FONT_HEIGHT) < 0
         THEN {}
    ELSE LET char_index == U8(c - VMA419_FONT_FIRST_CHAR)
             data_offset == U16(char_index * VMA419_FONT_WIDTH)
             cells == { cell \in (0..(VMA419_FONT_WIDTH - 1))
                                  \X (0..(VMA419_FONT_HEIGHT - 1)) :
                          /\ I16(x + cell[1]) >= 0 /\ I16(x + cell[1]) < 32
                          /\ I16(y + cell[2]) >= 0 /\ I16(y + cell[2]) < 16
                          /\ BitOf(pgm_read_byte(data_offset + cell[1]),
                                   cell[2]) = 1 }
         IN  { <<U16(I16(x + cell[1])), U16(I16(y + cell[2]))>> :
                 cell \in cells }

\* vma419_font_draw_char: the display after the call
vma419_font_draw_char(d, x, y, c) ==
    vma419_set_pixels(d, vma419_font_draw_char_pixels(x, y, c))

\* the loop of vma419_font_draw_string from character i of str on, with the
\* cursor at cursor_x: the cursor_x of each call of vma419_font_draw_char
RECURSIVE vma419_font_draw_string_cursors(_, _, _, _)
vma419_font_draw_string_cursors(cursor_x, y, str, i) ==
    IF i > Len(str) \/ ~(cursor_x < 32) THEN << >>
    ELSE <<cursor_x>>
         \o vma419_font_draw_string_cursors(
                I16(cursor_x
                      + vma419_font_draw_char_ret(cursor_x, y, str[i]) + 1),
                y, str, i + 1)

\* vma419_font_draw_string on a non-null string: the display after the
\* calls of vma419_font_draw_char at the cursors of the loop
vma419_font_draw_string(d, x, y, str) ==
    LET cursors == vma419_font_draw_string_cursors(x, y, str, 1)
    IN  vma419_set_pixels(d,
            UNION { vma419_font_draw_char_pixels(cursors[k], y, str[k]) :
                      k \in 1..Len(cursors) })

----------------------------------------------------------------------------
(* The state machine of text drawing with the C driver.  InitFont is the     *)
(* state after a successful vma419_init for a topology within the bounds.    *)

\* char values passed: the byte 200 read as a signed char, the codes next to
\* both ends of the font's range, and the letter A (a byte above 127 read as
\* an unsigned char fails the range test on the same side as 127)
FontChars == {-56, 31, 65, 126, 127}

\* positions passed to vma419_font_draw_char on a display of w x h pixels:
\* fully visible, clipped at the right and bottom of the first panel, just
\* off and well off the left and the top, at the right and bottom edges of
\* the display, and in the bottom-right corner of the display
FontPositions(w, h) ==
    { <<0, 0>>, <<29, 12>>, <<-5, 0>>, <<-6, 0>>, <<0, -7>>, <<0, -8>>,
      <<w, 0>>, <<0, h>>, <<w - 5, h - 7>> }

\* strings and positions passed to vma419_font_draw_string
FontStrings == { <<65, 126>>, <<65, 65, 65, 65, 65, 65, 65>> }
FontStringPositions == { <<0, 0>>, <<-6, 9>> }

InitFont ==
    /\ driver = "vma419"
    /\ \E w \in 1..MaxPanelsWide, h \in 1..MaxPanelsHigh :
          /\ disp = InitialDisplay(w, h)
          /\ lines = InitialLines(w, h)
    /\ dmd = NoDMD
    /\ bus = << >>
    /\ last = Op("vma419_init", 0, 0, 0, 0, 0, 0)
    /\ prev = disp
    /\ before = NoBefore
    /\ nscans = 0
    /\ ntext = 0
    /\ marquee = NoMarquee

\* vma419_font_draw_digit: the display after the call, which draws the
\* character '0' + digit for a digit of at most 9 and nothing otherwise
vma419_font_draw_digit(d, x, y, digit) ==
    IF digit <= 9 THEN vma419_font_draw_char(d, x, y, 48 + digit)
    ELSE d

\* vma419_font_draw_number_2d: the display after the call, the uint8_t
\* number capped at 99, the tens digit drawn at x and the ones digit at x + 6
vma419_font_draw_number_2d(d, x, y, number) ==
    LET n == IF number > 99 THEN 99 ELSE number
    IN  vma419_font_draw_digit(vma419_font_draw_digit(d, x, y, n \div 10),
                               I16(x + 6), y, n % 10)

\* vma419_font_draw_string_centered: the column start_x at which a string of
\* len characters is drawn; total_width is a uint8_t, the quotient is
\* rounded towards zero and a negative start_x becomes 0
vma419_font_draw_string_centered_start_x(len) ==
    LET total_width == U8((len * VMA419_FONT_WIDTH) + (len - 1))
        n == 32 - total_width
        start_x == IF n >= 0 THEN n \div 2 ELSE -((-n) \div 2)
    IN  IF start_x < 0 THEN 0 ELSE start_x

\* vma419_font_draw_string_centered on a non-null string: the display after
\* the call; len is the uint8_t count of the characters
vma419_font_draw_string_centered(d, y, str) ==
    vma419_font_draw_string(
        d, vma419_font_draw_string_centered_start_x(U8(Len(str))), y, str)

\* digits and numbers passed to vma419_font_draw_digit and
\* vma419_font_draw_number_2d, and the positions they are drawn at
FontDigits == {0, 7, 10}
FontNumbers == {7, 42, 100}
FontDigitPositions == { <<0, 0>>, <<24, 9>> }

\* strings and rows passed to vma419_font_draw_string_centered: "HI", the
\* empty string and a string wider than a panel
FontCenteredStrings == { <<72, 73>>, << >>, <<65, 65, 65, 65, 65, 65, 65>> }
FontCenteredRows == {0, 9}

\* last.arg is the character, last.ret the value returned
Font_draw_char ==
    /\ ntext < MaxTextCalls
    /\ \E p \in FontPositions(disp.total_width_pixels,
                              disp.total_height_pixels),
          c \in FontChars :
          /\ disp' = vma419_font_draw_char(disp, p[1], p[2], c)
          /\ last' = Op("vma419_font_draw_char", p[1], p[2], 0, 0, c,
                        vma419_font_draw_char_ret(p[1], p[2], c))
    /\ bus' = << >>
    /\ prev' = disp
    /\ before' = NoBefore
    /\ ntext' = ntext + 1
    /\ UNCHANGED <<driver, dmd, lines, nscans, marquee>>

\* last.arg is the string; bus lists the vma419_font_draw_char calls made
Font_draw_string ==
    /\ ntext < MaxTextCalls
    /\ \E p \in FontStringPositions, str \in FontStrings :
          /\ disp' = vma419_font_draw_string(disp, p[1], p[2], str)
          /\ last' = Op("vma419_font_draw_string", p[1], p[2], 0, 0, str, 0)
          /\ bus' = LET cursors == vma419_font_draw_string_cursors(
                                       p[1], p[2], str, 1)
                    IN  [k \in 1..Len(cursors) |->
                           <<"draw_char", cursors[k], p[2], str[k]>>]
    /\ prev' = disp
    /\ before' = NoBefore
    /\ ntext' = ntext + 1
    /\ UNCHANGED <<driver, dmd, lines, nscans, marquee>>

\* last.arg is the digit; bus lists the vma419_font_draw_char call made
Font_draw_digit ==
    /\ ntext < MaxTextCalls
    /\ \E p \in FontDigitPositions, digit \in FontDigits :
          /\ disp' = vma419_font_draw_digit(disp, p[1], p[2], digit)
          /\ last' = Op("vma419_font_draw_digit", p[1], p[2], 0, 0, digit, 0)
          /\ bus' = IF digit <= 9
                    THEN << <<"draw_char", p[1], p[2], 48 + digit>> >>
                    ELSE << >>
    /\ prev' = disp
    /\ before' = NoBefore
    /\ ntext' = ntext + 1
    /\ UNCHANGED <<driver, dmd, lines, nscans, marquee>>

\* last.arg is the number; bus lists the vma419_font_draw_char calls made
Font_draw_number_2d ==
    /\ ntext < MaxTextCalls
    /\ \E p \in FontDigitPositions, number \in FontNumbers :
          /\ disp' = vma419_font_draw_number_2d(disp, p[1], p[2], number)
          /\ last' = Op("vma419_font_draw_number_2d", p[1], p[2], 0, 0,
                        number, 0)
          /\ bus' = LET n == IF number > 99 THEN 99 ELSE number
                    IN  << <<"draw_char", p[1], p[2], 48 + (n \div 10)>>,
                           <<"draw_char", I16(p[1] + 6), p[2],
                             48 + (n % 10)>> >>
    /\ prev' = disp
    /\ before' = NoBefore
    /\ ntext' = ntext + 1
    /\ UNCHANGED <<driver, dmd, lines, nscans, marquee>>

\* last.arg is the string and last.x the column start_x; bus lists the
\* vma419_font_draw_char calls made
Font_draw_string_centered ==
    /\ ntext < MaxTextCalls
    /\ \E y \in FontCenteredRows, str \in FontCenteredStrings :
          LET start_x ==
                  vma419_font_draw_string_centered_start_x(U8(Len(str)))
          IN  /\ disp' = vma419_font_draw_string_centered(disp, y, str)
              /\ last' = Op("vma419_font_draw_string_centered", start_x, y,
                            0, 0, str, 0)
              /\ bus' = LET cursors == vma419_font_draw_string_cursors(
                                           start_x, y, str, 1)
                        IN  [k \in 1..Len(cursors) |->
                               <<"draw_char", cursors[k], y, str[k]>>]
    /\ prev' = disp
    /\ before' = NoBefore
    /\ ntext' = ntext + 1
    /\ UNCHANGED <<driver, dmd, lines, nscans, marquee>>

NextFont ==
    \/ Font_draw_char
    \/ Font_draw_string
    \/ Life_vma419_clear

SpecFont == InitFont /\ [][NextFont]_vars

\* the state machine of the digit, number and centred-string helpers of
\* VMA419_Font.h
NextDigits ==
    \/ Font_draw_digit
    \/ Font_draw_number_2d
    \/ Font_draw_string_centered
    \/ Life_vma419_clear

SpecDigits == InitFont /\ [][NextDigits]_vars

----------------------------------------------------------------------------
(* Text drawing: claims C16 - C19 under SpecFont *)

IsDrawChar == last.op = "vma419_font_draw_char"
IsDrawString == last.op = "vma419_font_draw_string"

\* the glyph drawn at (x, y) has no column or row on the display
FullyOutside(x, y) ==
    \/ x + VMA419_FONT_WIDTH <= 0
    \/ y + VMA419_FONT_HEIGHT <= 0
    \/ x >= Width
    \/ y >= Height

\* bit (col, row) of the glyph of character code c in the font table
GlyphBit(c, col, row) ==
    BitOf(vma419_font_5x7[(c - VMA419_FONT_FIRST_CHAR) * VMA419_FONT_WIDTH
                            + col + 1], row)

\* C16: vma419_font_draw_char returns the font's fixed width, 5, for every
\* character code in the font's range at every position, on the display or
\* off it.
C16_AlwaysWidth ==
    (IsDrawChar /\ vma419_font_in_range(last.arg))
    => last.ret = VMA419_FONT_WIDTH

\* C17: when the glyph lies fully outside the display on any side (left,
\* above, right or below), vma419_font_draw_char leaves the frame buffer
\* unchanged and still returns the glyph width.
C17_OutsideKeepsWidth ==
    (IsDrawChar /\ vma419_font_in_range(last.arg)
       /\ FullyOutside(last.x, last.y))
    => /\ disp = prev
       /\ last.ret = VMA419_FONT_WIDTH

\* C18: for a character code outside the font's range
\* [VMA419_FONT_FIRST_CHAR, VMA419_FONT_FIRST_CHAR + VMA419_FONT_CHAR_COUNT),
\* vma419_font_draw_char returns 0 and leaves the display, frame buffer
\* included, unchanged at every position.
C18_UnsupportedGlyph ==
    (IsDrawChar
       /\ ~(last.arg >= VMA419_FONT_FIRST_CHAR
            /\ last.arg < VMA419_FONT_FIRST_CHAR + VMA419_FONT_CHAR_COUNT))
    => /\ last.ret = 0
       /\ disp = prev

\* an unsupported code has been passed at a position where a glyph would be
\* fully visible, on a frame buffer that already holds lit pixels
C18_Witness ==
    /\ IsDrawChar
    /\ last.arg = 127
    /\ last.x = 0 /\ last.y = 0
    /\ \E i \in DOMAIN disp.frame_buffer : disp.frame_buffer[i] # 0
    /\ last.ret = 0
    /\ disp = prev

\* C19: vma419_font_draw_string(x, y, s) on a string of supported characters
\* draws character i (counted from 0) at column x + 6 * i, for every i whose
\* start column x + 6 * i is left of the right edge of the display: the call
\* of vma419_font_draw_char is made at that column, and every set bit of the
\* glyph that falls on the display is lit afterwards.
C19_GlyphColumns ==
    IsDrawString
    => \A i \in 0..(Len(last.arg) - 1) :
          LET column == last.x + (VMA419_FONT_WIDTH + 1) * i
          IN  column < Width
              => /\ Len(bus) > i
                 /\ bus[i + 1] = <<"draw_char", column, last.y, last.arg[i + 1]>>
                 /\ \A col \in 0..(VMA419_FONT_WIDTH - 1),
                       row \in 0..(VMA419_FONT_HEIGHT - 1) :
                       (/\ GlyphBit(last.arg[i + 1], col, row) = 1
                        /\ column + col >= 0 /\ column + col < Width
                        /\ last.y + row >= 0 /\ last.y + row < Height)
                       => Lit(disp.frame_buffer, column + col, last.y + row)

----------------------------------------------------------------------------
(* Scrolling text: the marquee of the C++ library (DMD419::drawMarquee and   *)
(* DMD419::stepMarquee) and the scroller of the main loop of main.c.  The    *)
(* font tables read by DMD419::charWidth and DMD419::drawChar are not part   *)
(* of the repository: a marquee text is given by the charWidth of each of    *)
(* its characters, and the drawString and drawChar calls a step makes are    *)
(* listed in bus in place of the pixels they write.                          *)

\* int8_t arithmetic
I8(n) == ((n + 128) % 256) - 128

\* DMD419::drawMarquee: marqueeWidth, the sum of charWidth + 1
RECURSIVE DMD419_drawMarquee_width(_, _)
DMD419_drawMarquee_width(charWidths, i) ==
    IF i > Len(charWidths) THEN 0
    ELSE I16(charWidths[i] + 1 + DMD419_drawMarquee_width(charWidths, i + 1))

\* DMD419::drawMarquee: the marquee fields after the call; fontHeight is the
\* FONT_HEIGHT byte of the selected font
DMD419_drawMarquee(charWidths, fontHeight, left, top) ==
    [marqueeLength |-> U8(Len(charWidths)),
     marqueeWidth |-> DMD419_drawMarquee_width(charWidths, 1),
     marqueeHeight |-> fontHeight,
     marqueeOffsetX |-> left,
     marqueeOffsetY |-> top,
     run |-> IF left = 0 THEN 0 ELSE -1]

\* the left wrap taken already when the text has moved out by its width
DMD419_stepMarquee_wraps_left_at_width(x, marqueeWidth) == x <= -marqueeWidth

\* DMD419::stepMarquee: the test for the wrap at the left
DMD419_stepMarquee_wraps_left(x, marqueeWidth) == x < -marqueeWidth

\* DMD419::stepMarquee: marqueeOffsetX after the call
DMD419_stepMarquee_x(o, m, amountX) ==
    LET x == I16(m.marqueeOffsetX + amountX)
    IN  IF DMD419_stepMarquee_wraps_left(x, m.marqueeWidth)
        THEN DMD419_PIXELS_ACROSS * o.DisplaysWide
        ELSE IF x > DMD419_PIXELS_ACROSS * o.DisplaysWide
             THEN -m.marqueeWidth
        ELSE x

\* the vertical offset wrapped at the top only
DMD419_stepMarquee_y_wraps_at_top_only(o, m, amountY) ==
    LET y == I16(m.marqueeOffsetY + amountY)
    IN  IF y < -m.marqueeHeight
        THEN DMD419_PIXELS_DOWN * o.DisplaysHigh
        ELSE y

\* DMD419::stepMarquee: marqueeOffsetY after the call
DMD419_stepMarquee_y(o, m, amountY) ==
    LET y == I16(m.marqueeOffsetY + amountY)
    IN  IF y < -m.marqueeHeight
        THEN DMD419_PIXELS_DOWN * o.DisplaysHigh
        ELSE IF y > DMD419_PIXELS_DOWN * o.DisplaysHigh
             THEN -m.marqueeHeight
        ELSE y

\* DMD419::stepMarquee: the value returned, true when an offset wrapped
DMD419_stepMarquee_ret(o, m, amountX, amountY) ==
    LET x == I16(m.marqueeOffsetX + amountX)
        y == I16(m.marqueeOffsetY + amountY)
    IN  \/ x < -m.marqueeWidth
        \/ x > DMD419_PIXELS_ACROSS * o.DisplaysWide
        \/ y < -m.marqueeHeight
        \/ y > DMD419_PIXELS_DOWN * o.DisplaysHigh

\* DMD419::stepMarquee: the marquee fields after the call
DMD419_stepMarquee(o, m, amountX, amountY) ==
    [m EXCEPT !.marqueeOffsetX = DMD419_stepMarquee_x(o, m, amountX),
              !.marqueeOffsetY = DMD419_stepMarquee_y(o, m, amountY)]

\* the shift to the left with the end of a row taken at every DisplaysTotal
\* * 4 bytes
DMD419_shift_left_rows_of_all_panels(o) ==
    [o EXCEPT !.bDMD419ScreenRAM =
        [j \in DOMAIN @ |->
           LET i == j - 1
           IN  IF (i % (o.DisplaysTotal * 4)) = (o.DisplaysTotal * 4) - 1
               THEN U8(Load(@, i) * 2 + 1)
               ELSE U8(Load(@, i) * 2 + (And8(Load(@, i + 1), 128) \div 128))]]

\* the loop that shifts the whole screen one bit to the left; byte i + 1 is
\* read before the loop reaches it
DMD419_shift_left(o) ==
    [o EXCEPT !.bDMD419ScreenRAM =
        [j \in DOMAIN @ |->
           LET i == j - 1
           IN  IF (i % (o.DisplaysWide * 4)) = (o.DisplaysWide * 4) - 1
               THEN U8(Load(@, i) * 2 + 1)
               ELSE U8(Load(@, i) * 2 + (And8(Load(@, i + 1), 128) \div 128))]]

\* the loop that shifts the whole screen one bit to the right, run from the
\* last byte down; byte i - 1 is read before the loop reaches it
DMD419_shift_right(o) ==
    [o EXCEPT !.bDMD419ScreenRAM =
        [j \in DOMAIN @ |->
           LET i == j - 1
           IN  IF (i % (o.DisplaysWide * 4)) = 0
               THEN U8((Load(@, i) \div 2) + 128)
               ELSE U8((Load(@, i) \div 2) + And8(Load(@, i - 1), 1) * 128)]]

\* DMD419::stepMarquee: the object after the call, without the pixels of the
\* characters redrawn
DMD419_stepMarquee_screen(o, m, amountX, amountY) ==
    LET cleared == IF DMD419_stepMarquee_ret(o, m, amountX, amountY)
                   THEN DMD419_clearScreen(o, 1) ELSE o
    IN  IF amountY = 0 /\ amountX = -1 THEN DMD419_shift_left(cleared)
        ELSE IF amountY = 0 /\ amountX = 1 THEN DMD419_shift_right(cleared)
        ELSE cleared

\* the text width taken one character too wide
main_text_width_with_gap(m) == I16(U16((m.scroll_text_len + 1) * 6))

\* main.c: int16_t text_width = strlen(scroll_text) * 6
main_text_width(m) == I16(U16(m.scroll_text_len * 6))

\* main.c, "update scrolling position": the scroller after the block
main_update_scroll(m) ==
    LET refresh_counter == U16(m.refresh_counter + 1)
    IN  IF refresh_counter >= m.scroll_speed
        THEN LET scroll_position ==
                     I16(m.scroll_position + m.scroll_direction)
                 text_width == main_text_width(m)
             IN  [m EXCEPT
                    !.refresh_counter = 0,
                    !.scroll_position =
                        IF m.scroll_direction < 0
                        THEN IF scroll_position < -text_width
                             THEN 32 ELSE scroll_position
                        ELSE IF scroll_position > 32
                             THEN -text_width ELSE scroll_position]
        ELSE [m EXCEPT !.refresh_counter = refresh_counter]

\* main.c, the direction button PC2
main_toggle_direction(m) ==
    LET scroll_direction == I8(-m.scroll_direction)
    IN  [m EXCEPT
           !.scroll_direction = scroll_direction,
           !.scroll_position =
               IF scroll_direction < 0 THEN 32
               ELSE I16(U16(U16(-m.scroll_text_len) * 6))]

\* updateDisplayMessage for a message of msg_len characters: the text is the
\* message cut to 30 characters, followed by a space
updateDisplayMessage(m, msg_len) ==
    LET max_copy_len == 32 - 2
        len == IF U8(msg_len) > max_copy_len THEN max_copy_len
               ELSE U8(msg_len)
    IN  [m EXCEPT !.scroll_text_len = len + 1,
                  !.scroll_position = 32]

----------------------------------------------------------------------------
(* The state machine of scanning a display whose topology vma419_init        *)
(* accepted, large topologies included.  For 25 x 41 panels the size stored  *)
(* in the uint16_t frame_buffer_size has wrapped to 64, for 32 x 32 panels   *)
(* to 0, and the scan reads past the end of the allocation: such a read is   *)
(* undefined and yields what the memory there holds at the time, a byte the  *)
(* program does not determine.                                               *)

\* topologies passed to vma419_init
ScanTopologies == { <<1, 1>>, <<3, 1>>, <<25, 41>>, <<32, 32>> }

\* the value of a read of frame_buffer[j] with j past the end of the
\* allocation.  The read is undefined: which byte it yields depends on what
\* memory holds there when the scan runs, and the program determines none
\* of it.  The value is therefore kept as the read itself, <<"memory", j>>,
\* which stands for each of the 256 bytes the read can yield; no byte is
\* chosen for it, and a statement about the bytes streamed can be derived
\* only where it does not depend on them
StrayByte(j) == <<"memory", j>>

\* the events of vma419_scan_display_quarter, in order: a read inside the
\* frame buffer yields the byte stored there, a read past its end the
\* undetermined byte of memory at that index
vma419_scan_events_reading(d) ==
    IF d.frame_buffer = NULL THEN << >>
    ELSE
      LET order == vma419_scan_order(d)
      IN  << <<"oe", 1>>,
             <<"a", d.scan_cycle % 2>>,
             <<"b", (d.scan_cycle \div 2) % 2>> >>
          \o [k \in 1..Len(order) |->
                LET j == order[k]
                IN  <<"spi", IF j < Len(d.frame_buffer)
                             THEN Load(d.frame_buffer, j)
                             ELSE StrayByte(j)>>]
          \o << <<"latch", 1>>, <<"latch", 0>>, <<"oe", 0>> >>

InitBigScan ==
    /\ driver = "vma419"
    /\ \E t \in ScanTopologies :
          /\ disp = InitialDisplay(t[1], t[2])
          /\ lines = InitialLines(t[1], t[2])
    /\ dmd = NoDMD
    /\ bus = << >>
    /\ last = Op("vma419_init", 0, 0, 0, 0, 0, 0)
    /\ prev = disp
    /\ before = NoBefore
    /\ nscans = 0
    /\ ntext = 0
    /\ marquee = NoMarquee

Big_vma419_scan_display_quarter ==
    /\ driver = "vma419"
    /\ bus' = vma419_scan_events_reading(disp)
    /\ last' = Op("vma419_scan_display_quarter", 0, 0, 0, 0, 0, 0)
    /\ disp' = vma419_scan_display_quarter(disp)
    /\ lines' = vma419_scan_lines(disp, lines)
    /\ prev' = disp
    /\ before' = NoBefore
    /\ UNCHANGED <<driver, dmd, nscans, ntext, marquee>>

NextBigScan ==
    \/ Set_scan_cycle
    \/ Big_vma419_scan_display_quarter

SpecBigScan == InitBigScan /\ [][NextBigScan]_vars

----------------------------------------------------------------------------
(* Scanning: claims C21 - C23 under SpecScan *)

IsScanQuarter ==
    /\ driver = "vma419"
    /\ last.op = "vma419_scan_display_quarter"
    /\ prev.frame_buffer # NULL

\* the level of the output-enable line after the first k events of bus, the
\* line being at level oe before them (1 = output disabled)
OutputEnableAfter(oe, k) ==
    LET set == {j \in 1..k : bus[j][1] = "oe"}
    IN  IF set = {} THEN oe
        ELSE bus[CHOOSE j \in set : \A i \in set : i <= j][2]

\* C21: within a call of vma419_scan_display_quarter on an initialised
\* display the line events are, in order: output disabled, A and B driven to
\* bits 0 and 1 of the phase, 16 bytes per panel streamed, latch asserted,
\* latch deasserted, output enabled.  So every event other than the first
\* and the last (row select, bytes, latch) occurs with the output disabled,
\* and at return the latch is deasserted and the output enabled.
C21_ScanOrder ==
    IsScanQuarter
    => LET n == Len(bus)
           p == prev.scan_cycle
       IN  /\ n = 6 + 16 * Wide * High
           /\ bus[1] = <<"oe", 1>>
           /\ bus[2] = <<"a", p % 2>>
           /\ bus[3] = <<"b", (p \div 2) % 2>>
           /\ \A k \in 4..(n - 3) : bus[k][1] = "spi"
           /\ bus[n - 2] = <<"latch", 1>>
           /\ bus[n - 1] = <<"latch", 0>>
           /\ bus[n] = <<"oe", 0>>
           /\ \A k \in 2..(n - 1) : OutputEnableAfter(0, k - 1) = 1
           /\ lines.latch = 0 /\ lines.oe = 0
           /\ lines.a = p % 2 /\ lines.b = (p \div 2) % 2

\* a scan of phase 2 on a display of more than one panel that holds lit
\* pixels has been made
C21_Witness ==
    /\ IsScanQuarter
    /\ prev.scan_cycle = 2
    /\ Wide * High > 1
    /\ \E i \in DOMAIN prev.frame_buffer : prev.frame_buffer[i] # 0
    /\ Len(bus) = 6 + 16 * Wide * High
    /\ lines.oe = 0

\* the indices vma419_scan_display_quarter reads from display d in phase p
ScanIndices(d, p) == vma419_scan_order([d EXCEPT !.scan_cycle = p])

\* C22: for every topology and every phase in 0..3,
\* vma419_scan_display_quarter streams exactly 16 bytes per panel, every
\* index it reads is inside the frame buffer, and the indices read in phases
\* 0, 1, 2 and 3 partition 0 .. frame_buffer_size - 1: every byte of the
\* buffer is transmitted exactly once in a full cycle.
C22_ScanPartition ==
    (IsScanQuarter /\ prev.scan_cycle \in 0..3)
    => LET size == Len(prev.frame_buffer)
           total == prev.panels_wide * prev.panels_high
           order == ScanIndices(prev, prev.scan_cycle)
       IN  /\ Cardinality({k \in 1..Len(bus) : bus[k][1] = "spi"})
                = 16 * total
           /\ Len(order) = 16 * total
           /\ \A k \in 1..Len(order) : order[k] < size
           /\ \A b \in 0..(size - 1) :
                 Cardinality({ pk \in (0..3) \X (1..(16 * total)) :
                                 ScanIndices(prev, pk[1])[pk[2]] = b }) = 1

IsDMDScan ==
    /\ driver = "dmd419"
    /\ last.op = "scanDisplayBySPI"
    /\ last.arg = 1

\* the interleave of the 16 bytes of one panel: <<byte column, row block>>
ScanPattern ==
    << <<0, 3>>, <<0, 2>>, <<1, 3>>, <<1, 2>>, <<0, 1>>, <<0, 0>>,
       <<1, 1>>, <<1, 0>>, <<2, 3>>, <<2, 2>>, <<3, 3>>, <<3, 2>>,
       <<2, 1>>, <<2, 0>>, <<3, 1>>, <<3, 0>> >>

\* the index of byte j (1..16) of panel i (from 0) in phase p on a display
\* of total panels
PanelByteIndex(total, p, i, j) ==
    4 * total * p + 4 * i + ScanPattern[j][1] + 16 * total * ScanPattern[j][2]

\* C23: on a display of more than one panel a call of
\* DMD419::scanDisplayBySPI that is not skipped streams for each panel that
\* panel's own 16 bytes (panel i's bytes start 4 * i bytes after panel 0's in
\* each row), and over the four phases every byte of the frame buffer is
\* read exactly once.
C23_PanelBytes ==
    (IsDMDScan /\ prev.DisplaysTotal > 1 /\ prev.bDMD419Byte \in 0..3)
    => LET total == prev.DisplaysTotal
           p == prev.bDMD419Byte
           order == DMD419_scan_order(prev)
       IN  /\ \A i \in 0..(total - 1), j \in 1..16 :
                 /\ order[16 * i + j] = PanelByteIndex(total, p, i, j)
                 /\ bus[16 * i + j]
                      = <<"spi",
                          255 - prev.bDMD419ScreenRAM[
                                    PanelByteIndex(total, p, i, j) + 1]>>
           /\ \A b \in 0..(Len(prev.bDMD419ScreenRAM) - 1) :
                 Cardinality(
                     { pk \in (0..3) \X (1..(16 * total)) :
                         DMD419_scan_order(
                             [prev EXCEPT !.bDMD419Byte = pk[1]])[pk[2]]
                           = b }) = 1

\* ------------------------------------------------------------------------
\* Row remap: claim C27
\* ------------------------------------------------------------------------

\* the permutation of the four rows of a group
RowPermutation == <<3, 0, 1, 2>>

\* the row stated for addressing logical row y
StatedRow(y) == 4 * (y \div 4) + RowPermutation[(y % 4) + 1]

\* the byte and the bit of pixel (x, y) when row r is used for addressing
StatedByte(x, r) ==
    (((x % 32) + 32 * ((x \div 32) + Wide * (r \div 16))) \div 8)
    + (r % 16) * (Wide * High * 4)
StatedMask(x, r) == 2 ^ (7 - (x % 8))

\* C27: for every topology and every row y of the display, rows of panels
\* below the first panel row (y >= 16) included, vma419_set_pixel addresses
\* the pixel through row 4*(y div 4) + pi(y mod 4), pi = {0->3, 1->0, 2->1,
\* 3->2}: after an in-bounds vma419_set_pixel with a non-zero color the bit
\* of that row is set.
C27_RemapEveryRow ==
    (/\ driver = "vma419"
     /\ last.op = "vma419_set_pixel"
     /\ InBounds(last.x, last.y)
     /\ last.pixel # 0)
    => (FB[StatedByte(last.x, StatedRow(last.y)) + 1]
           \div StatedMask(last.x, StatedRow(last.y))) % 2 = 1

\* the same statement for the rows of the first panel row only
C27_RemapFirstPanelRow ==
    (/\ driver = "vma419"
     /\ last.op = "vma419_set_pixel"
     /\ InBounds(last.x, last.y)
     /\ last.y < 16
     /\ last.pixel # 0)
    => (FB[StatedByte(last.x, StatedRow(last.y)) + 1]
           \div StatedMask(last.x, StatedRow(last.y))) % 2 = 1

\* ------------------------------------------------------------------------
\* Text clipping of the C driver: claim C30
\* ------------------------------------------------------------------------

\* C30: text drawing clips against the display's own bounds on every
\* topology: after vma419_font_draw_char of a supported character every set
\* bit of the glyph that falls inside total_width_pixels x
\* total_height_pixels is lit (a glyph placed right of column 32 on a display
\* two panels wide is drawn), and vma419_font_draw_string goes on calling
\* vma419_font_draw_char as long as the cursor is left of the display's
\* right edge.
C30_ClipsAtDisplay ==
    /\ (IsDrawChar /\ vma419_font_in_range(last.arg))
       => \A col \in 0..(VMA419_FONT_WIDTH - 1),
             row \in 0..(VMA419_FONT_HEIGHT - 1) :
             (/\ GlyphBit(last.arg, col, row) = 1
              /\ last.x + col >= 0 /\ last.x + col < Width
              /\ last.y + row >= 0 /\ last.y + row < Height)
             => Lit(disp.frame_buffer, last.x + col, last.y + row)
    /\ IsDrawString
       => Len(bus) = Cardinality({ i \in 0..(Len(last.arg) - 1) :
                         last.x + (VMA419_FONT_WIDTH + 1) * i < Width })

\* the same statement on displays of one panel
C30_ClipsAtOnePanel ==
    (Wide = 1 /\ High = 1) => C30_ClipsAtDisplay

----------------------------------------------------------------------------
(* Text of the C++ library at the level of pixels: DMD419::charWidth,        *)
(* DMD419::drawChar, DMD419::drawLine, DMD419::drawFilledBox,                *)
(* DMD419::drawString and the drawing done by drawMarquee and stepMarquee.   *)
(* A font is the byte array handed to selectFont; the library reads it at    *)
(* the indices FONT_LENGTH .. FONT_WIDTH_TABLE.  Each drawing routine is     *)
(* given as the sequence of writePixel calls it makes, in order, each call   *)
(* <<x, y, mode, pixel>> with x and y the int values passed.                 *)

FONT_LENGTH == 0
FONT_FIXED_WIDTH == 2
FONT_HEIGHT == 3
FONT_FIRST_CHAR == 4
FONT_CHAR_COUNT == 5
FONT_WIDTH_TABLE == 6

\* pgm_read_byte(font + i)
DMD419_pgm_read_byte(font, i) == font[i + 1]

\* DMD419::charWidth
DMD419_charWidth(font, letter) ==
    LET c == IF letter = 32 THEN 110 ELSE letter
        firstChar == DMD419_pgm_read_byte(font, FONT_FIRST_CHAR)
        charCount == DMD419_pgm_read_byte(font, FONT_CHAR_COUNT)
    IN  IF c < firstChar \/ c >= firstChar + charCount THEN 0
        ELSE IF DMD419_pgm_read_byte(font, FONT_LENGTH) = 0
                /\ DMD419_pgm_read_byte(font, FONT_LENGTH + 1) = 0
             THEN DMD419_pgm_read_byte(font, FONT_FIXED_WIDTH)
             ELSE DMD419_pgm_read_byte(font,
                                       FONT_WIDTH_TABLE + U8(c - firstChar))

\* DMD419::drawLine, the loop of the branch dx > dy: the pixels written
\* after the first
RECURSIVE DMD419_drawLine_along_x(_, _, _, _, _, _, _, _)
DMD419_drawLine_along_x(x1, y1, x2, fraction, dx, dy, stepx, stepy) ==
    IF x1 = x2 THEN << >>
    ELSE LET y == IF fraction >= 0 THEN I16(y1 + stepy) ELSE y1
             f == IF fraction >= 0 THEN I16(fraction - dx) ELSE fraction
             x == I16(x1 + stepx)
         IN  << <<x, y>> >>
             \o DMD419_drawLine_along_x(x, y, x2, I16(f + dy), dx, dy,
                                        stepx, stepy)

\* DMD419::drawLine, the loop of the other branch
RECURSIVE DMD419_drawLine_along_y(_, _, _, _, _, _, _, _)
DMD419_drawLine_along_y(x1, y1, y2, fraction, dx, dy, stepx, stepy) ==
    IF y1 = y2 THEN << >>
    ELSE LET x == IF fraction >= 0 THEN I16(x1 + stepx) ELSE x1
             f == IF fraction >= 0 THEN I16(fraction - dy) ELSE fraction
             y == I16(y1 + stepy)
         IN  << <<x, y>> >>
             \o DMD419_drawLine_along_y(x, y, y2, I16(f + dx), dx, dy,
                                        stepx, stepy)

\* DMD419::drawLine: the pixels written, in order
DMD419_drawLine_points(x1, y1, x2, y2) ==
    LET dy0 == I16(y2 - y1)
        dx0 == I16(x2 - x1)
        stepy == IF dy0 < 0 THEN -1 ELSE 1
        stepx == IF dx0 < 0 THEN -1 ELSE 1
        dy == I16((IF dy0 < 0 THEN -dy0 ELSE dy0) * 2)
        dx == I16((IF dx0 < 0 THEN -dx0 ELSE dx0) * 2)
    IN  << <<x1, y1>> >>
        \o (IF dx > dy
            THEN DMD419_drawLine_along_x(x1, y1, x2, I16(dy - (dx \div 2)),
                                         dx, dy, stepx, stepy)
            ELSE DMD419_drawLine_along_y(x1, y1, y2, I16(dx - (dy \div 2)),
                                         dx, dy, stepx, stepy))

\* DMD419::drawLine: every pixel is written with bPixel = true
DMD419_drawLine_writes(x1, y1, x2, y2, bGraphicsMode) ==
    LET points == DMD419_drawLine_points(x1, y1, x2, y2)
    IN  [n \in DOMAIN points |->
            <<points[n][1], points[n][2], bGraphicsMode, 1>>]

\* DMD419::drawFilledBox from column b on: one drawLine per column b..x2
RECURSIVE DMD419_drawFilledBox_writes(_, _, _, _, _)
DMD419_drawFilledBox_writes(b, y1, x2, y2, bGraphicsMode) ==
    IF ~(b <= x2) THEN << >>
    ELSE DMD419_drawLine_writes(b, y1, b, y2, bGraphicsMode)
         \o DMD419_drawFilledBox_writes(b + 1, y1, x2, y2, bGraphicsMode)

\* DMD419::drawCircleSub: the writePixel calls made, in order
DMD419_drawCircleSub_writes(cx, cy, x, y, bGraphicsMode) ==
    IF x = 0
    THEN << <<cx, I16(cy + y), bGraphicsMode, 1>>,
            <<cx, I16(cy - y), bGraphicsMode, 1>>,
            <<I16(cx + y), cy, bGraphicsMode, 1>>,
            <<I16(cx - y), cy, bGraphicsMode, 1>> >>
    ELSE IF x = y
    THEN << <<I16(cx + x), I16(cy + y), bGraphicsMode, 1>>,
            <<I16(cx - x), I16(cy + y), bGraphicsMode, 1>>,
            <<I16(cx + x), I16(cy - y), bGraphicsMode, 1>>,
            <<I16(cx - x), I16(cy - y), bGraphicsMode, 1>> >>
    ELSE IF x < y
    THEN << <<I16(cx + x), I16(cy + y), bGraphicsMode, 1>>,
            <<I16(cx - x), I16(cy + y), bGraphicsMode, 1>>,
            <<I16(cx + x), I16(cy - y), bGraphicsMode, 1>>,
            <<I16(cx - x), I16(cy - y), bGraphicsMode, 1>>,
            <<I16(cx + y), I16(cy + x), bGraphicsMode, 1>>,
            <<I16(cx - y), I16(cy + x), bGraphicsMode, 1>>,
            <<I16(cx + y), I16(cy - x), bGraphicsMode, 1>>,
            <<I16(cx - y), I16(cy - x), bGraphicsMode, 1>> >>
    ELSE << >>

\* DMD419::drawCircle, the loop while (x < y): the writePixel calls made
RECURSIVE DMD419_drawCircle_loop(_, _, _, _, _, _)
DMD419_drawCircle_loop(xCenter, yCenter, x, y, p, bGraphicsMode) ==
    IF ~(x < y) THEN << >>
    ELSE LET x1 == I16(x + 1)
             y1 == IF p < 0 THEN y ELSE I16(y - 1)
             p1 == IF p < 0 THEN I16(p + 2 * x1 + 1)
                   ELSE I16(p + 2 * (x1 - y1) + 1)
         IN  DMD419_drawCircleSub_writes(xCenter, yCenter, x1, y1,
                                         bGraphicsMode)
             \o DMD419_drawCircle_loop(xCenter, yCenter, x1, y1, p1,
                                       bGraphicsMode)

\* DMD419::drawCircle: the writePixel calls made, in order; the quotient
\* (5 - radius * 4) / 4 is rounded towards zero
DMD419_drawCircle_writes(xCenter, yCenter, radius, bGraphicsMode) ==
    LET n == I16(5 - radius * 4)
        p == IF n >= 0 THEN n \div 4 ELSE -((-n) \div 4)
    IN  DMD419_drawCircleSub_writes(xCenter, yCenter, 0, radius,
                                    bGraphicsMode)
        \o DMD419_drawCircle_loop(xCenter, yCenter, 0, radius, p,
                                  bGraphicsMode)

\* DMD419::drawBox: the writePixel calls of its four drawLine calls
DMD419_drawBox_writes(x1, y1, x2, y2, bGraphicsMode) ==
    DMD419_drawLine_writes(x1, y1, x2, y1, bGraphicsMode)
    \o DMD419_drawLine_writes(x2, y1, x2, y2, bGraphicsMode)
    \o DMD419_drawLine_writes(x2, y2, x1, y2, bGraphicsMode)
    \o DMD419_drawLine_writes(x1, y2, x1, y1, bGraphicsMode)

\* a & b on 16-bit values
And16(a, b) ==
    LET bit(k) == IF BitOf(a, k) = 1 /\ BitOf(b, k) = 1 THEN 2 ^ k ELSE 0
    IN  bit(0) + bit(1) + bit(2) + bit(3) + bit(4) + bit(5) + bit(6) + bit(7)
        + bit(8) + bit(9) + bit(10) + bit(11) + bit(12) + bit(13) + bit(14)
        + bit(15)

PATTERN_ALT_0 == 0
PATTERN_ALT_1 == 1
PATTERN_STRIPE_0 == 2
PATTERN_STRIPE_1 == 3

\* DMD419::drawTestPattern: the writePixel calls made, in order, one for
\* each ui in 0 .. numPixels - 1 when bPattern is one of the four patterns
DMD419_drawTestPattern_writes(o, bPattern) ==
    LET numPixels == I16(o.DisplaysTotal * DMD419_PIXELS_ACROSS
                         * DMD419_PIXELS_DOWN)
        pixelsWide == I16(DMD419_PIXELS_ACROSS * o.DisplaysWide)
        write(ui) ==
            LET x == And16(ui, U16(pixelsWide - 1))
                y == And16(ui, 65535 - U16(pixelsWide - 1))
                       \div U16(pixelsWide)
                even == And16(ui, U16(pixelsWide)) = 0
                odd_pixel == ui % 2
            IN  << x, y, GRAPHICS_NORMAL,
                   CASE bPattern = PATTERN_ALT_0 ->
                            IF even THEN odd_pixel ELSE 1 - odd_pixel
                     [] bPattern = PATTERN_ALT_1 ->
                            IF even THEN 1 - odd_pixel ELSE odd_pixel
                     [] bPattern = PATTERN_STRIPE_0 -> odd_pixel
                     [] OTHER -> 1 - odd_pixel >>
    IN  IF bPattern \in {PATTERN_ALT_0, PATTERN_ALT_1,
                         PATTERN_STRIPE_0, PATTERN_STRIPE_1}
        THEN [n \in 1..U16(numPixels) |-> write(n - 1)]
        ELSE << >>

\* DMD419::drawChar: the position in the font of the first byte of glyph c
\* (c counted from the first character) and the glyph's width
DMD419_drawChar_fixed(font) ==
    /\ DMD419_pgm_read_byte(font, FONT_LENGTH) = 0
    /\ DMD419_pgm_read_byte(font, FONT_LENGTH + 1) = 0

RECURSIVE DMD419_drawChar_widths_before(_, _)
DMD419_drawChar_widths_before(font, c) ==
    IF c = 0 THEN 0
    ELSE U16(DMD419_drawChar_widths_before(font, c - 1)
             + DMD419_pgm_read_byte(font, FONT_WIDTH_TABLE + (c - 1)))

DMD419_drawChar_width(font, c) ==
    IF DMD419_drawChar_fixed(font)
    THEN DMD419_pgm_read_byte(font, FONT_FIXED_WIDTH)
    ELSE DMD419_pgm_read_byte(font, FONT_WIDTH_TABLE + c)

DMD419_drawChar_index(font, c) ==
    LET height == DMD419_pgm_read_byte(font, FONT_HEIGHT)
        bytes == U8((height + 7) \div 8)
        charCount == DMD419_pgm_read_byte(font, FONT_CHAR_COUNT)
    IN  IF DMD419_drawChar_fixed(font)
        THEN U16(c * bytes * DMD419_pgm_read_byte(font, FONT_FIXED_WIDTH)
                 + FONT_WIDTH_TABLE)
        ELSE U16(DMD419_drawChar_widths_before(font, c) * bytes
                 + charCount + FONT_WIDTH_TABLE)

\* DMD419::drawChar: the value returned
DMD419_drawChar_ret(o, font, bX, bY, letter) ==
    LET firstChar == DMD419_pgm_read_byte(font, FONT_FIRST_CHAR)
        charCount == DMD419_pgm_read_byte(font, FONT_CHAR_COUNT)
    IN  IF bX > DMD419_PIXELS_ACROSS * o.DisplaysWide
           \/ bY > DMD419_PIXELS_DOWN * o.DisplaysHigh
        THEN -1
        ELSE IF letter = 32 THEN DMD419_charWidth(font, 32)
        ELSE IF letter < firstChar \/ letter >= firstChar + charCount THEN 0
        ELSE DMD419_drawChar_width(font, U8(letter - firstChar))

\* DMD419::drawChar, the loops over j (columns), i (vertical bytes, from the
\* last down to 0) and k (bits): the writePixel calls made, in order
DMD419_drawChar_glyph_writes(font, bX, bY, c, bGraphicsMode) ==
    LET height == DMD419_pgm_read_byte(font, FONT_HEIGHT)
        bytes == U8((height + 7) \div 8)
        width == DMD419_drawChar_width(font, c)
        index == DMD419_drawChar_index(font, c)
        step(n) ==
            LET j == (n - 1) \div (bytes * 8)
                i == (bytes - 1) - (((n - 1) % (bytes * 8)) \div 8)
                k == (n - 1) % 8
                data == DMD419_pgm_read_byte(font, U16(index + j + i * width))
                offset == IF i = bytes - 1 /\ bytes > 1
                          THEN height - 8 ELSE i * 8
            IN  << I16(bX + j), I16(bY + offset + k), bGraphicsMode,
                   BitOf(data, k),
                   (offset + k >= i * 8) /\ (offset + k <= height) >>
        steps == [n \in 1..(width * bytes * 8) |-> step(n)]
        Written(s) == s[5]
        written == SelectSeq(steps, Written)
    IN  [n \in DOMAIN written |->
            <<written[n][1], written[n][2], written[n][3], written[n][4]>>]

\* DMD419::drawChar: the writePixel calls made, in order
DMD419_drawChar_writes(o, font, bX, bY, letter, bGraphicsMode) ==
    LET height == DMD419_pgm_read_byte(font, FONT_HEIGHT)
        firstChar == DMD419_pgm_read_byte(font, FONT_FIRST_CHAR)
        charCount == DMD419_pgm_read_byte(font, FONT_CHAR_COUNT)
        c == U8(letter - firstChar)
    IN  IF bX > DMD419_PIXELS_ACROSS * o.DisplaysWide
           \/ bY > DMD419_PIXELS_DOWN * o.DisplaysHigh
        THEN << >>
        ELSE IF letter = 32
        THEN DMD419_drawFilledBox_writes(
                 bX, bY, bX + DMD419_charWidth(font, 32), bY + height,
                 GRAPHICS_INVERSE)
        ELSE IF letter < firstChar \/ letter >= firstChar + charCount
        THEN << >>
        ELSE IF bX < -DMD419_drawChar_width(font, c) \/ bY < -height
        THEN << >>
        ELSE DMD419_drawChar_glyph_writes(font, bX, bY, c, bGraphicsMode)

\* the byte at the bit `lookup` after the writePixel calls ks (a set of
\* positions in writes) on that bit, made in order
RECURSIVE DMD419_writePixels_bit(_, _, _, _)
DMD419_writePixels_bit(old, lookup, writes, ks) ==
    IF ks = {} THEN old
    ELSE LET k == CHOOSE k \in ks : \A m \in ks : k <= m
         IN  DMD419_writePixels_bit(
                 DMD419_graphics_mode(old, lookup, writes[k][3], writes[k][4]),
                 lookup, writes, ks \ {k})

\* the object after the writePixel calls of writes, made in order.  A call
\* reads and changes one bit of one byte only, so each bit of the buffer is
\* the outcome of the calls that address it, taken in order.
DMD419_writePixels(o, writes) ==
    LET address ==
            [n \in DOMAIN writes |->
                IF DMD419_in_bounds(o, U16(writes[n][1]), U16(writes[n][2]))
                THEN << DMD419_RAMPointer(o, U16(writes[n][1]),
                                          U16(writes[n][2])),
                        DMD419_lookup(o, U16(writes[n][1]),
                                      U16(writes[n][2])) >>
                ELSE << -1, 0 >>]
        pointers == { address[n][1] : n \in DOMAIN writes }
        byte(old, i) ==
            LET here == { n \in DOMAIN writes : address[n][1] = i }
                bit(lookup) ==
                    And8(DMD419_writePixels_bit(
                             old, lookup, writes,
                             { n \in here : address[n][2] = lookup }),
                         lookup)
            IN  bit(128) + bit(64) + bit(32) + bit(16)
                + bit(8) + bit(4) + bit(2) + bit(1)
    IN  [o EXCEPT !.bDMD419ScreenRAM =
           [j \in DOMAIN @ |->
               IF (j - 1) \in pointers THEN byte(@[j], j - 1) ELSE @[j]]]

\* DMD419::drawLine, drawCircle, drawBox, drawFilledBox and drawTestPattern:
\* the object after the call
DMD419_drawLine(o, x1, y1, x2, y2, bGraphicsMode) ==
    DMD419_writePixels(o, DMD419_drawLine_writes(x1, y1, x2, y2,
                                                 bGraphicsMode))

DMD419_drawCircle(o, xCenter, yCenter, radius, bGraphicsMode) ==
    DMD419_writePixels(o, DMD419_drawCircle_writes(xCenter, yCenter, radius,
                                                   bGraphicsMode))

DMD419_drawBox(o, x1, y1, x2, y2, bGraphicsMode) ==
    DMD419_writePixels(o, DMD419_drawBox_writes(x1, y1, x2, y2,
                                                bGraphicsMode))

DMD419_drawFilledBox(o, x1, y1, x2, y2, bGraphicsMode) ==
    DMD419_writePixels(o, DMD419_drawFilledBox_writes(x1, y1, x2, y2,
                                                      bGraphicsMode))

DMD419_drawTestPattern(o, bPattern) ==
    DMD419_writePixels(o, DMD419_drawTestPattern_writes(o, bPattern))

\* DMD419::drawChar: the object after the call
DMD419_drawChar(o, font, bX, bY, letter, bGraphicsMode) ==
    DMD419_writePixels(
        o, DMD419_drawChar_writes(o, font, bX, bY, letter, bGraphicsMode))

\* the mode of the separator columns if they were drawn in the text's mode
DMD419_drawString_separator_in_text_mode(bGraphicsMode) == bGraphicsMode

\* DMD419::drawString: the mode in which the separator columns are drawn
DMD419_drawString_separator(bGraphicsMode) == GRAPHICS_INVERSE

\* DMD419::drawString, the loop from character i on (counted from 1) with
\* strWidth columns drawn so far: the writePixel calls made, in order
RECURSIVE DMD419_drawString_loop(_, _, _, _, _, _, _, _)
DMD419_drawString_loop(o, font, bX, bY, bChars, bGraphicsMode, strWidth, i) ==
    IF i > Len(bChars) THEN << >>
    ELSE
      LET height == DMD419_pgm_read_byte(font, FONT_HEIGHT)
          charWide == DMD419_drawChar_ret(o, font, I16(bX + strWidth), bY,
                                          bChars[i])
          glyph == DMD419_drawChar_writes(o, font, I16(bX + strWidth), bY,
                                          bChars[i], bGraphicsMode)
          line == IF charWide > 0
                  THEN DMD419_drawLine_writes(
                           I16(bX + strWidth + charWide), bY,
                           I16(bX + strWidth + charWide), I16(bY + height),
                           DMD419_drawString_separator(bGraphicsMode))
                  ELSE << >>
          next == IF charWide > 0 THEN I16(strWidth + charWide + 1)
                  ELSE strWidth
      IN  IF charWide < 0 THEN glyph
          ELSE IF (bX + next) >= DMD419_PIXELS_ACROSS * o.DisplaysWide
                  \/ bY >= DMD419_PIXELS_DOWN * o.DisplaysHigh
          THEN glyph \o line
          ELSE glyph \o line
               \o DMD419_drawString_loop(o, font, bX, bY, bChars,
                                         bGraphicsMode, next, i + 1)

\* DMD419::drawString: the writePixel calls made, in order
DMD419_drawString_writes(o, font, bX, bY, bChars, bGraphicsMode) ==
    LET height == DMD419_pgm_read_byte(font, FONT_HEIGHT)
    IN  IF bX >= DMD419_PIXELS_ACROSS * o.DisplaysWide
           \/ bY >= DMD419_PIXELS_DOWN * o.DisplaysHigh
        THEN << >>
        ELSE IF bY + height < 0 THEN << >>
        ELSE DMD419_drawLine_writes(
                 I16(bX - 1), bY, I16(bX - 1), I16(bY + height),
                 DMD419_drawString_separator(bGraphicsMode))
             \o DMD419_drawString_loop(o, font, bX, bY, bChars,
                                       bGraphicsMode, 0, 1)

\* DMD419::drawString: the object after the call
DMD419_drawString(o, font, bX, bY, bChars, bGraphicsMode) ==
    DMD419_writePixels(
        o, DMD419_drawString_writes(o, font, bX, bY, bChars, bGraphicsMode))

\* fonts handed to selectFont: a fixed-width font 3 wide and 5 high (one
\* vertical byte) and a variable-width font 10 high (two vertical bytes,
\* rows 8 and 9 in bits 6 and 7 of the second), each with the characters
\* 'n' (110) and 'o' (111)
Font_3x5 ==
    << 0, 0, 3, 5, 110, 2,
       31, 1, 30,
       14, 17, 14 >>
Font_var10 ==
    << 18, 0, 3, 10, 110, 2,
       2, 3,
       255, 1, 192, 1,
       254, 1, 254, 64, 128, 64 >>
TextFonts == { Font_3x5, Font_var10 }

\* DMD419::drawString: the drawChar calls made, from character i on, each
\* <<bX, letter, value returned>>
RECURSIVE DMD419_drawString_calls(_, _, _, _, _, _, _)
DMD419_drawString_calls(o, font, bX, bY, bChars, strWidth, i) ==
    IF bX >= DMD419_PIXELS_ACROSS * o.DisplaysWide
       \/ bY >= DMD419_PIXELS_DOWN * o.DisplaysHigh
       \/ bY + DMD419_pgm_read_byte(font, FONT_HEIGHT) < 0
       \/ i > Len(bChars)
    THEN << >>
    ELSE
      LET charWide == DMD419_drawChar_ret(o, font, I16(bX + strWidth), bY,
                                          bChars[i])
          next == IF charWide > 0 THEN I16(strWidth + charWide + 1)
                  ELSE strWidth
          call == << <<I16(bX + strWidth), bChars[i], charWide>> >>
      IN  IF charWide < 0
             \/ (bX + next) >= DMD419_PIXELS_ACROSS * o.DisplaysWide
          THEN call
          ELSE call \o DMD419_drawString_calls(o, font, bX, bY, bChars,
                                               next, i + 1)

\* DMD419::selectFont: the fields of the object after the call
DMD419_selectFont(m, font) == [m EXCEPT !.Font = font]

\* a call of selectFont with one of `fonts`, made while fewer than `calls`
\* calls are counted in ntext; last.arg is the font
DMD419_selectFont_call(fonts, calls) ==
    /\ driver = "dmd419"
    /\ ntext < calls
    /\ \E font \in fonts :
          /\ marquee' = DMD419_selectFont(marquee, font)
          /\ last' = Op("selectFont", 0, 0, 0, 0, font, 0)
    /\ bus' = << >>
    /\ prev' = dmd
    /\ ntext' = ntext + 1
    /\ UNCHANGED <<driver, disp, lines, dmd, before, nscans>>

----------------------------------------------------------------------------
(* The state machine of text drawn with the C++ library.  InitGlyph is the   *)
(* state after the constructor and selectFont; marquee.Font is the font      *)
(* selected, and selectFont is called again at any time.  clearScreen(false) *)
(* lights every pixel, so that drawChar and drawString are also made on a    *)
(* display that is not blank.                                                *)

\* displays of one panel and of two panels side by side
GlyphTopologies == { <<1, 1>>, <<2, 1>> }

\* characters passed to drawChar: 'n', the space and '?', which is not in
\* the fonts ('o' is drawn by drawString)
GlyphChars == {110, 32, 63}

\* positions passed to drawChar on a display of w x h pixels: inside the
\* display, and cut by its left and bottom edges
GlyphPositions(w, h) == { <<1, 1>>, <<-1, h - 4>> }

\* strings and positions passed to drawString: with the text across the
\* right edge of the display, and with the first glyph left of the display
\* and the text across the bottom edge
GlyphStrings == { <<110, 111>>, <<111, 32, 63, 110>> }
GlyphStringPositions(w, h) == { <<w - 6, 0>>, <<-5, h - 4>> }

InitGlyph ==
    /\ driver = "dmd419"
    /\ disp = ZeroDisplay
    /\ lines = DMD419_DMD419_lines
    /\ \E t \in GlyphTopologies : dmd = DMD419_DMD419(t[1], t[2])
    /\ \E font \in TextFonts : marquee = [Font |-> font]
    /\ bus = << >>
    /\ last = Op("selectFont", 0, 0, 0, 0, 0, 0)
    /\ prev = dmd
    /\ before = NoBefore
    /\ nscans = 0
    /\ ntext = 0

\* last.arg is bNormal
Glyph_clearScreen ==
    /\ \E bNormal \in {0, 1} :
          /\ dmd' = DMD419_clearScreen(dmd, bNormal)
          /\ last' = Op("clearScreen", 0, 0, 0, 0, bNormal, 0)
    /\ bus' = << >>
    /\ prev' = dmd
    /\ UNCHANGED <<driver, disp, lines, before, nscans, ntext, marquee>>

\* last.arg is the character, last.ret the value returned
Glyph_drawChar ==
    /\ ntext < MaxGlyphCalls
    /\ \E p \in GlyphPositions(DMD419_PIXELS_ACROSS * dmd.DisplaysWide,
                               DMD419_PIXELS_DOWN * dmd.DisplaysHigh),
          letter \in GlyphChars, bGraphicsMode \in GraphicsModes :
          /\ dmd' = DMD419_drawChar(dmd, marquee.Font, p[1], p[2], letter,
                                    bGraphicsMode)
          /\ last' = Op("drawChar", p[1], p[2], bGraphicsMode, 0, letter,
                        DMD419_drawChar_ret(dmd, marquee.Font, p[1], p[2],
                                            letter))
    /\ bus' = << >>
    /\ prev' = dmd
    /\ ntext' = ntext + 1
    /\ UNCHANGED <<driver, disp, lines, before, nscans, marquee>>

\* last.arg is the string; bus lists the drawChar calls made
Glyph_drawString ==
    /\ ntext < MaxGlyphCalls
    /\ \E p \in GlyphStringPositions(DMD419_PIXELS_ACROSS * dmd.DisplaysWide,
                                     DMD419_PIXELS_DOWN * dmd.DisplaysHigh),
          bChars \in GlyphStrings, bGraphicsMode \in GraphicsModes :
          /\ dmd' = DMD419_drawString(dmd, marquee.Font, p[1], p[2], bChars,
                                      bGraphicsMode)
          /\ bus' = DMD419_drawString_calls(dmd, marquee.Font, p[1], p[2],
                                            bChars, 0, 1)
          /\ last' = Op("drawString", p[1], p[2], bGraphicsMode, 0, bChars, 0)
    /\ prev' = dmd
    /\ ntext' = ntext + 1
    /\ UNCHANGED <<driver, disp, lines, before, nscans, marquee>>

\* selectFont called again
Glyph_selectFont ==
    /\ \E font \in TextFonts :
          /\ marquee' = DMD419_selectFont(marquee, font)
          /\ last' = Op("selectFont", 0, 0, 0, 0, font, 0)
    /\ bus' = << >>
    /\ prev' = dmd
    /\ UNCHANGED <<driver, disp, lines, dmd, before, nscans, ntext>>

NextGlyph ==
    \/ Glyph_selectFont
    \/ Glyph_clearScreen
    \/ Glyph_drawChar
    \/ Glyph_drawString

SpecGlyph == InitGlyph /\ [][NextGlyph]_vars

----------------------------------------------------------------------------
(* The state machine of the drawing functions of the C++ library: lines,     *)
(* circles, boxes and test patterns drawn after the constructor.             *)

InitShapes ==
    /\ driver = "dmd419"
    /\ disp = ZeroDisplay
    /\ lines = DMD419_DMD419_lines
    /\ \E t \in GlyphTopologies : dmd = DMD419_DMD419(t[1], t[2])
    /\ marquee = NoMarquee
    /\ bus = << >>
    /\ last = Op("DMD419", 0, 0, 0, 0, 0, 0)
    /\ prev = dmd
    /\ before = NoBefore
    /\ nscans = 0
    /\ ntext = 0

\* lines, circles and boxes drawn on the display: inside it and across its
\* edges; <<x1, y1, x2, y2>> or <<xCenter, yCenter, radius>>
ShapeLines == { <<0, 0, 5, 0>>, <<10, 5, 2, 1>>, <<30, 3, 33, 12>> }
ShapeCircles == { <<8, 8, 3>>, <<0, 0, 2>> }
ShapeBoxes == { <<0, 0, 3, 2>>, <<30, 14, 33, 17>> }
ShapeFilledBoxes == { <<0, 0, 1, 1>>, <<30, 14, 33, 17>> }

\* modes passed to the drawing functions
ShapeModes == {GRAPHICS_NORMAL, GRAPHICS_TOGGLE}

\* patterns passed to drawTestPattern: the four patterns and another byte
ShapePatterns == {PATTERN_ALT_0, PATTERN_ALT_1, PATTERN_STRIPE_0,
                  PATTERN_STRIPE_1, 4}

\* last.x, last.y are x1, y1 and last.arg is <<x2, y2>>
Shape_drawLine ==
    /\ ntext < MaxGlyphCalls
    /\ \E l \in ShapeLines, bGraphicsMode \in ShapeModes :
          /\ dmd' = DMD419_drawLine(dmd, l[1], l[2], l[3], l[4],
                                    bGraphicsMode)
          /\ last' = Op("drawLine", l[1], l[2], bGraphicsMode, 1,
                        <<l[3], l[4]>>, 0)
    /\ bus' = << >>
    /\ prev' = dmd
    /\ ntext' = ntext + 1
    /\ UNCHANGED <<driver, disp, lines, before, nscans, marquee>>

\* last.x, last.y are the centre and last.arg is the radius
Shape_drawCircle ==
    /\ ntext < MaxGlyphCalls
    /\ \E c \in ShapeCircles, bGraphicsMode \in ShapeModes :
          /\ dmd' = DMD419_drawCircle(dmd, c[1], c[2], c[3], bGraphicsMode)
          /\ last' = Op("drawCircle", c[1], c[2], bGraphicsMode, 1, c[3], 0)
    /\ bus' = << >>
    /\ prev' = dmd
    /\ ntext' = ntext + 1
    /\ UNCHANGED <<driver, disp, lines, before, nscans, marquee>>

\* last.x, last.y are x1, y1 and last.arg is <<x2, y2>>
Shape_drawBox ==
    /\ ntext < MaxGlyphCalls
    /\ \E b \in ShapeBoxes, bGraphicsMode \in ShapeModes :
          /\ dmd' = DMD419_drawBox(dmd, b[1], b[2], b[3], b[4],
                                   bGraphicsMode)
          /\ last' = Op("drawBox", b[1], b[2], bGraphicsMode, 1,
                        <<b[3], b[4]>>, 0)
    /\ bus' = << >>
    /\ prev' = dmd
    /\ ntext' = ntext + 1
    /\ UNCHANGED <<driver, disp, lines, before, nscans, marquee>>

\* last.x, last.y are x1, y1 and last.arg is <<x2, y2>>
Shape_drawFilledBox ==
    /\ ntext < MaxGlyphCalls
    /\ \E b \in ShapeFilledBoxes, bGraphicsMode \in ShapeModes :
          /\ dmd' = DMD419_drawFilledBox(dmd, b[1], b[2], b[3], b[4],
                                         bGraphicsMode)
          /\ last' = Op("drawFilledBox", b[1], b[2], bGraphicsMode, 1,
                        <<b[3], b[4]>>, 0)
    /\ bus' = << >>
    /\ prev' = dmd
    /\ ntext' = ntext + 1
    /\ UNCHANGED <<driver, disp, lines, before, nscans, marquee>>

\* last.arg is bPattern
Shape_drawTestPattern ==
    /\ ntext < MaxGlyphCalls
    /\ \E bPattern \in ShapePatterns :
          /\ dmd' = DMD419_drawTestPattern(dmd, bPattern)
          /\ last' = Op("drawTestPattern", 0, 0, GRAPHICS_NORMAL, 0,
                        bPattern, 0)
    /\ bus' = << >>
    /\ prev' = dmd
    /\ ntext' = ntext + 1
    /\ UNCHANGED <<driver, disp, lines, before, nscans, marquee>>

NextShapes ==
    \/ Shape_drawLine
    \/ Shape_drawCircle
    \/ Shape_drawBox
    \/ Shape_drawFilledBox
    \/ Shape_drawTestPattern

SpecShapes == InitShapes /\ [][NextShapes]_vars

\* ------------------------------------------------------------------------
\* Glyphs and separators of the C++ library: claims C28, C29
\* ------------------------------------------------------------------------

IsDMDDrawChar == driver = "dmd419" /\ last.op = "drawChar"
IsDMDDrawString == driver = "dmd419" /\ last.op = "drawString"

\* the height of the selected font
FontHeight == DMD419_pgm_read_byte(marquee.Font, FONT_HEIGHT)

\* the pixels of the display whose lit state the last call changed
ChangedPixels ==
    { p \in (0..(Width - 1)) \X (0..(Height - 1)) :
         Lit(FB, p[1], p[2]) # Lit(PrevFB, p[1], p[2]) }

\* C28: DMD419::drawChar draws no phantom rows: when it draws a glyph other
\* than the space, of width w and height h, at (x, y) in any graphics mode,
\* every pixel whose state changes has x <= px < x + w and y <= py < y + h,
\* for fonts lower than 8 rows and for fonts higher than 8 rows whose height
\* is not a multiple of 8.
C28_NoPhantomRows ==
    (IsDMDDrawChar /\ last.arg # 32 /\ last.ret > 0)
    => \A p \in ChangedPixels :
          /\ last.x <= p[1] /\ p[1] < last.x + last.ret
          /\ last.y <= p[2] /\ p[2] < last.y + FontHeight

\* the same statement for the font of height 10
C28_NoPhantomRowsTall ==
    FontHeight > 8 => C28_NoPhantomRows

\* what changes lies in the glyph's columns and in the rows y .. y + h
C28_OneRowBelow ==
    (IsDMDDrawChar /\ last.arg # 32 /\ last.ret > 0)
    => \A p \in ChangedPixels :
          /\ last.x <= p[1] /\ p[1] < last.x + last.ret
          /\ last.y <= p[2] /\ p[2] <= last.y + FontHeight

\* C29: after DMD419::drawString in any graphics mode, for every glyph it
\* drew with positive width, the separator column immediately to the right
\* of the glyph is off on every row of the text line that lies inside the
\* display, whatever the buffer contained before the call.
C29_SeparatorOff ==
    IsDMDDrawString
    => \A n \in DOMAIN bus :
          bus[n][3] > 0
          => \A row \in last.y..(last.y + FontHeight - 1) :
                (/\ bus[n][1] + bus[n][3] >= 0
                 /\ bus[n][1] + bus[n][3] < Width
                 /\ row >= 0 /\ row < Height)
                => ~Lit(FB, bus[n][1] + bus[n][3], row)

\* a drawString in TOGGLE mode whose second separator column was lit on
\* row last.y before the call
C29_Witness ==
    /\ IsDMDDrawString
    /\ last.mode = GRAPHICS_TOGGLE
    /\ last.y >= 0
    /\ Len(bus) >= 2
    /\ bus[2][3] > 0
    /\ bus[2][1] + bus[2][3] < Width
    /\ Lit(PrevFB, bus[2][1] + bus[2][3], last.y)
    /\ ~Lit(FB, bus[2][1] + bus[2][3], last.y)

----------------------------------------------------------------------------
(* The marquee of the C++ library at the level of pixels.                    *)

\* DMD419::drawMarquee: the marquee fields after the call, with the font
\* selected and the text copied to marqueeText
DMD419_drawMarquee_fields(font, bChars, left, top) ==
    [Font |-> font, marqueeText |-> bChars]
    @@ DMD419_drawMarquee(
           [i \in DOMAIN bChars |-> DMD419_charWidth(font, bChars[i])],
           DMD419_pgm_read_byte(font, FONT_HEIGHT), left, top)

\* DMD419::drawMarquee: the object after the call
DMD419_drawMarquee_pixels(o, font, bChars, left, top) ==
    DMD419_drawString(o, font, left, top, bChars, GRAPHICS_NORMAL)

\* the loops "redraw last char on screen": the drawChar call made, from
\* character i on with the pen at strWidth; leftward is amountX = -1.  The
\* widths are read from the font selected at the time of the step
RECURSIVE DMD419_stepMarquee_redraw(_, _, _, _, _)
DMD419_stepMarquee_redraw(o, m, leftward, strWidth, i) ==
    IF i > m.marqueeLength THEN << >>
    ELSE LET wide == DMD419_charWidth(m.Font, m.marqueeText[i])
             found == IF leftward
                      THEN strWidth + wide
                             >= o.DisplaysWide * DMD419_PIXELS_ACROSS
                      ELSE strWidth + wide >= 0
         IN  IF found
             THEN << <<"drawChar", strWidth, m.marqueeOffsetY, i>> >>
             ELSE DMD419_stepMarquee_redraw(o, m, leftward,
                                            I16(strWidth + wide + 1), i + 1)

\* DMD419::stepMarquee: the drawing calls made, m being the marquee fields
\* after the offsets were updated
DMD419_stepMarquee_events(o, m, amountX, amountY) ==
    IF amountY = 0 /\ amountX = -1
    THEN DMD419_stepMarquee_redraw(o, m, TRUE, m.marqueeOffsetX, 1)
    ELSE IF amountY = 0 /\ amountX = 1
    THEN DMD419_stepMarquee_redraw(o, m, FALSE, m.marqueeOffsetX, 1)
    ELSE << <<"drawString", m.marqueeOffsetX, m.marqueeOffsetY,
              m.marqueeLength>> >>

\* DMD419::stepMarquee: the object after the call, m being the marquee
\* fields before it
DMD419_stepMarquee_pixels(o, m, amountX, amountY) ==
    LET stepped == DMD419_stepMarquee(o, m, amountX, amountY)
        screen == DMD419_stepMarquee_screen(o, m, amountX, amountY)
        events == DMD419_stepMarquee_events(o, stepped, amountX, amountY)
    IN  IF events = << >> THEN screen
        ELSE IF events[1][1] = "drawChar"
        THEN DMD419_drawChar(screen, m.Font, events[1][2], events[1][3],
                             m.marqueeText[events[1][4]], GRAPHICS_NORMAL)
        ELSE DMD419_drawString(screen, m.Font, stepped.marqueeOffsetX,
                               stepped.marqueeOffsetY, m.marqueeText,
                               GRAPHICS_NORMAL)

----------------------------------------------------------------------------
(* Scrolling text with the C++ library: calls of drawMarquee and             *)
(* stepMarquee.  marquee.run is history: the number of one-pixel steps to    *)
(* the left made since the horizontal offset was 0, or -1 when the offset    *)
(* has not been 0, another operation came between, or the count has passed   *)
(* the text width + 1.                                                       *)

\* a font of the characters 'n' and 'o', 3 wide and 7 high, whose glyphs
\* have no pixel lit
Font_blank ==
    << 0, 0, 3, 7, 110, 2,
       0, 0, 0,
       0, 0, 0 >>

\* a font of the characters 'n' and 'o', of widths 2 and 3 and 10 high,
\* whose glyphs have no pixel lit
Font_blank_var10 ==
    << 18, 0, 3, 10, 110, 2,
       2, 3,
       0, 0, 0, 0,
       0, 0, 0, 0, 0, 0 >>

\* fonts whose glyphs have no pixel lit
StepFonts == { Font_blank, Font_blank_var10 }

\* the font selected and the marquee texts: the empty text, one glyph, and
\* two glyphs and a space
MarqueeFonts == { Font_3x5 }
MarqueeTexts == { << >>, <<110>>, <<110, 111, 32>> }

\* (amountX, amountY) passed to stepMarquee
MarqueeSteps == { <<-1, 0>>, <<1, 0>> }

\* the text passed to drawMarquee when it is called again, and top (at -8
\* the text starts above the display by more than the font height)
DrawnTexts == { <<110>> }
MarqueeTops == {0, -8}

\* the history marquee.run after an operation that leaves the offset at x;
\* step_left says that the operation moved the text one pixel to the left
NextRun(run, text_width, x, step_left) ==
    IF x = 0 THEN 0
    ELSE IF step_left /\ run >= 0 /\ run <= text_width THEN run + 1
    ELSE -1

\* the state after the constructor, selectFont(font) and
\* drawMarquee(text, length, left, top) on w x h panels
DMD419_marquee_drawn(w, h, font, text, left, top) ==
    /\ driver = "dmd419"
    /\ disp = ZeroDisplay
    /\ lines = DMD419_DMD419_lines
    /\ dmd = DMD419_drawMarquee_pixels(DMD419_DMD419(w, h), font, text,
                                       left, top)
    /\ marquee = DMD419_drawMarquee_fields(font, text, left, top)
    /\ last = Op("drawMarquee", left, top, 0, 0, text, 0)
    /\ bus = << <<"drawString", left, top, Len(text)>> >>
    /\ prev = DMD419_DMD419(w, h)
    /\ before = NoBefore
    /\ nscans = 0
    /\ ntext = 0

\* drawMarquee called again, at the right edge of the display; last.x and
\* last.y are left and top, last.arg the text
Marquee_drawMarquee ==
    /\ driver = "dmd419"
    /\ \E text \in DrawnTexts,
          left \in {DMD419_PIXELS_ACROSS * dmd.DisplaysWide},
          top \in MarqueeTops :
          /\ marquee' = DMD419_drawMarquee_fields(marquee.Font, text, left,
                                                  top)
          /\ dmd' = DMD419_drawMarquee_pixels(dmd, marquee.Font, text, left,
                                              top)
          /\ last' = Op("drawMarquee", left, top, 0, 0, text, 0)
          /\ bus' = << <<"drawString", left, top, Len(text)>> >>
    /\ prev' = dmd
    /\ before' = NoBefore
    /\ UNCHANGED <<driver, disp, lines, nscans, ntext>>

\* a call of stepMarquee with one of `steps`: last.x and last.y are amountX
\* and amountY, last.ret the value returned, bus the drawing calls made
DMD419_stepMarquee_call(steps) ==
    /\ driver = "dmd419"
    /\ \E step \in steps :
          LET stepped == DMD419_stepMarquee(dmd, marquee, step[1], step[2])
          IN  /\ marquee' =
                   [stepped EXCEPT
                      !.run = NextRun(marquee.run, marquee.marqueeWidth,
                                      stepped.marqueeOffsetX,
                                      step = <<-1, 0>>)]
              /\ dmd' = DMD419_stepMarquee_pixels(dmd, marquee,
                                                  step[1], step[2])
              /\ bus' = DMD419_stepMarquee_events(dmd, stepped,
                                                  step[1], step[2])
              /\ last' = Op("stepMarquee", step[1], step[2], 0, 0, 0,
                            DMD419_stepMarquee_ret(dmd, marquee,
                                                   step[1], step[2]))
    /\ prev' = dmd
    /\ before' = NoBefore
    /\ UNCHANGED <<driver, disp, lines, nscans, ntext>>

Marquee_stepMarquee == DMD419_stepMarquee_call(MarqueeSteps)

Marquee_selectFont == DMD419_selectFont_call(TextFonts, MaxGlyphCalls)

----------------------------------------------------------------------------
(* The state machine of the marquee with its pixels.  InitScroll is the      *)
(* state after the constructor (which clears the screen), selectFont and     *)
(* drawMarquee.  marquee.pure is history: "none" before the first step,      *)
(* "left" while every step was stepMarquee(-1, 0), "right" while every step  *)
(* was stepMarquee(+1, 0), "mixed" otherwise and after a selectFont.         *)
(* before.fb is history: the buffer of the last step after its wrap and      *)
(* shift, before it redrew.                                                  *)

\* texts of the marquee: two glyphs, a text with a space, a text with a
\* character that is not in the font
ScrollTexts == { <<110, 111>>, <<111, 32, 110>>, <<110, 63, 111>> }

\* left passed to drawMarquee on a display w pixels wide: with the text
\* across the boundary of the last panel (the left edge of a display one
\* panel wide), with the text across the right edge, and just right of the
\* display
ScrollLefts(w) == { w - 34, w - 6, w }

\* top passed to drawMarquee on a display h pixels high: in the lowest row
\* of panels
ScrollTop(h) == h - 12

\* (amountX, amountY) passed to stepMarquee
ScrollSteps == { <<-1, 0>>, <<1, 0>>, <<2, 0>>, <<0, 1>> }

NextPure(pure, step) ==
    IF step = <<-1, 0>> /\ pure \in {"none", "left"} THEN "left"
    ELSE IF step = <<1, 0>> /\ pure \in {"none", "right"} THEN "right"
    ELSE "mixed"

InitScroll ==
    /\ driver = "dmd419"
    /\ disp = ZeroDisplay
    /\ lines = DMD419_DMD419_lines
    /\ \E w \in 1..MaxPanelsWide, h \in 1..MaxPanelsHigh,
          font \in TextFonts, text \in ScrollTexts :
          \E left \in ScrollLefts(DMD419_PIXELS_ACROSS * w) :
             LET top == ScrollTop(DMD419_PIXELS_DOWN * h)
             IN  /\ dmd = DMD419_drawMarquee_pixels(DMD419_DMD419(w, h), font,
                                                    text, left, top)
                 /\ marquee =
                      [pure |-> "none"]
                      @@ DMD419_drawMarquee_fields(font, text, left, top)
                 /\ prev = DMD419_DMD419(w, h)
                 /\ last = Op("drawMarquee", left, top, 0, 0, text, 0)
    /\ bus = << >>
    /\ before = NoBefore
    /\ nscans = 0
    /\ ntext = 0

\* last.x and last.y are amountX and amountY, last.ret the value returned
Scroll_stepMarquee ==
    /\ ntext < MaxTextCalls
    /\ \E step \in ScrollSteps :
          /\ marquee' =
                [DMD419_stepMarquee(dmd, marquee, step[1], step[2])
                   EXCEPT !.pure = NextPure(marquee.pure, step)]
          /\ dmd' = DMD419_stepMarquee_pixels(dmd, marquee, step[1], step[2])
          /\ before' =
                [mode |-> -1,
                 fb |-> DMD419_stepMarquee_screen(
                            dmd, marquee, step[1], step[2]).bDMD419ScreenRAM]
          /\ bus' = DMD419_stepMarquee_events(
                        dmd, DMD419_stepMarquee(dmd, marquee, step[1], step[2]),
                        step[1], step[2])
          /\ last' = Op("stepMarquee", step[1], step[2], 0, 0, 0,
                        DMD419_stepMarquee_ret(dmd, marquee, step[1], step[2]))
    /\ prev' = dmd
    /\ ntext' = ntext + 1
    /\ UNCHANGED <<driver, disp, lines, nscans>>

\* selectFont between the steps; last.arg is the font
Scroll_selectFont ==
    /\ ntext < MaxTextCalls
    /\ \E font \in TextFonts :
          /\ marquee' = [DMD419_selectFont(marquee, font)
                            EXCEPT !.pure = "mixed"]
          /\ last' = Op("selectFont", 0, 0, 0, 0, font, 0)
    /\ bus' = << >>
    /\ prev' = dmd
    /\ ntext' = ntext + 1
    /\ UNCHANGED <<driver, disp, lines, dmd, before, nscans>>

NextScroll == Scroll_selectFont \/ Scroll_stepMarquee

SpecScroll == InitScroll /\ [][NextScroll]_vars

\* ------------------------------------------------------------------------
\* The marquee on the screen: claims C24 - C26
\* ------------------------------------------------------------------------

IsDMDStep == driver = "dmd419" /\ last.op = "stepMarquee"
IsFastStep == IsDMDStep /\ last.y = 0 /\ last.x \in {-1, 1}

\* the buffer obtained by clearing the screen and calling drawString with
\* the marquee text at the current offsets
Rerender ==
    DMD419_drawString(DMD419_clearScreen(dmd, 1), marquee.Font,
                      marquee.marqueeOffsetX, marquee.marqueeOffsetY,
                      marquee.marqueeText, GRAPHICS_NORMAL).bDMD419ScreenRAM

\* every character of the marquee text is a space or a character of the font
TextInFont ==
    \A i \in DOMAIN marquee.marqueeText :
       \/ marquee.marqueeText[i] = 32
       \/ DMD419_charWidth(marquee.Font, marquee.marqueeText[i]) > 0

\* C24: the single-pixel fast path is equivalent to re-rendering: starting
\* from a cleared screen and drawMarquee(text, left, top), after every step
\* of a sequence of stepMarquee(-1, 0) calls, and likewise of
\* stepMarquee(+1, 0) calls, the frame buffer equals the buffer obtained by
\* clearing the screen and calling drawString with the text at the current
\* offsets, for every text, texts with spaces and with characters outside
\* the font's range included.
C24_FastPathIsRerender ==
    (IsDMDStep /\ marquee.pure \in {"left", "right"})
    => FB = Rerender

\* the same statement for the texts made of spaces and characters of the font
C24_FastPathInFont ==
    TextInFont => C24_FastPathIsRerender

\* C25: on the general path of stepMarquee (amountY # 0 or |amountX| # 1)
\* the step clears the buffer and re-renders the string: after the call the
\* frame buffer equals the result of clearing the screen and drawing the
\* marquee text at the new offset, whatever was on the screen before, also
\* when the step does not wrap.
C25_GeneralPathRerenders ==
    (IsDMDStep /\ ~IsFastStep)
    => FB = Rerender

\* the same statement for the steps that wrap
C25_WrapRerenders ==
    (IsDMDStep /\ ~IsFastStep /\ last.ret)
    => FB = Rerender

\* on the general path a step that does not wrap draws the string over the
\* buffer as it was
C25_DrawsOverOldBuffer ==
    (IsDMDStep /\ ~IsFastStep /\ ~last.ret)
    => dmd = DMD419_drawString(prev, marquee.Font, marquee.marqueeOffsetX,
                               marquee.marqueeOffsetY, marquee.marqueeText,
                               GRAPHICS_NORMAL)

\* the buffer the shift of the last step started from
ShiftBase ==
    IF last.ret THEN DMD419_clearScreen(prev, 1).bDMD419ScreenRAM
    ELSE PrevFB

\* C26: the buffer shift of the fast path moves every pixel one column
\* within its own logical row and carries no bit across a row boundary, on
\* every topology, two panels wide and two panels high included: after the
\* shift of stepMarquee(-1, 0) pixel (x, y) holds the old state of pixel
\* (x + 1, y) for x < total_width - 1 and the rightmost column is off; after
\* the shift of stepMarquee(+1, 0) pixel (x, y) holds the old state of
\* (x - 1, y) for x > 0 and the leftmost column is off.
C26_ShiftOneColumn ==
    IsFastStep
    => \A y \in 0..(Height - 1) :
          IF last.x = -1
          THEN /\ \A x \in 0..(Width - 2) :
                     Lit(before.fb, x, y) = Lit(ShiftBase, x + 1, y)
               /\ ~Lit(before.fb, Width - 1, y)
          ELSE /\ \A x \in 1..(Width - 1) :
                     Lit(before.fb, x, y) = Lit(ShiftBase, x - 1, y)
               /\ ~Lit(before.fb, 0, y)

\* a shift to the left on a display of 2 x 2 panels that moved a lit pixel
\* of the lower panels from column 32 to column 31, and a shift to the right
\* on such a display that moved a lit pixel
C26_Witness ==
    /\ IsFastStep
    /\ Wide = 2 /\ High = 2
    /\ ~last.ret
    /\ \/ /\ last.x = -1
          /\ \E y \in 16..31 :
                Lit(PrevFB, 32, y) /\ Lit(before.fb, 31, y)
       \/ /\ last.x = 1
          /\ \E y \in 16..31 :
                Lit(PrevFB, 31, y) /\ Lit(before.fb, 32, y)

----------------------------------------------------------------------------
(* Pixels of the C driver on the topologies of ScanTopologies: vma419_clear  *)
(* and vma419_set_pixel after vma419_init.                                   *)

NextAlias == Call_vma419_clear \/ Call_vma419_set_pixel

SpecAlias == InitBigScan /\ [][NextAlias]_vars

\* the same topologies with vma419_clear and vma419_write_pixel
NextAddress == Call_vma419_clear \/ Call_vma419_write_pixel

SpecAddress == InitBigScan /\ [][NextAddress]_vars

\* ------------------------------------------------------------------------
\* One bit per pixel: claim C31
\* ------------------------------------------------------------------------

\* pixel p has a bit in buffer fb, and the lit state of that bit
HasBit(fb, p) == ByteOffset(p[1], p[2]) < Len(fb)
LitBit(fb, p) == HasBit(fb, p) /\ Lit(fb, p[1], p[2])

\* the pixels looked at: every pixel of a display of at most four panels,
\* the pixels of Coordinates on a larger one
SeenPixels ==
    IF Wide * High <= 4 THEN (0..(Width - 1)) \X (0..(Height - 1))
    ELSE { c \in Coordinates(Width, Height) :
             c[1] >= 0 /\ c[2] >= 0 /\ InBounds(c[1], c[2]) }

\* C31: no two pixels alias, on every topology: after vma419_clear every
\* pixel is off, and after vma419_set_pixel on an in-bounds pixel that
\* pixel's bit in the frame buffer holds the value written and the bit of
\* every other pixel holds what it held, so that each pixel's bit holds the
\* value most recently written to that pixel; the mapping from in-bounds
\* (x, y) to (byte offset, bit mask), row remap included, is one-to-one and
\* every pixel has a bit in the buffer.
C31_NoAlias ==
    /\ (driver = "vma419" /\ last.op = "vma419_clear")
       => \A p \in SeenPixels : HasBit(FB, p) /\ ~LitBit(FB, p)
    /\ (driver = "vma419" /\ last.op = "vma419_set_pixel"
          /\ InBounds(last.x, last.y))
       => /\ HasBit(FB, <<last.x, last.y>>)
          /\ LitBit(FB, <<last.x, last.y>>) = (last.pixel # 0)
          /\ \A p \in SeenPixels :
                p # <<last.x, last.y>>
                => /\ HasBit(FB, p)
                   /\ LitBit(FB, p) = LitBit(PrevFB, p)
          /\ Cardinality({ <<ByteOffset(p[1], p[2]), Mask(p[1], p[2])>> :
                             p \in SeenPixels })
               = Cardinality(SeenPixels)

\* the same statement on displays whose buffer size fits uint16_t
C31_NoAliasSmall ==
    Wide * High <= 1023 => C31_NoAlias

----------------------------------------------------------------------------
(* stepMarquee with steps of any size in both directions, and drawMarquee  *)
(* called again at any time.  InitStep is the state after the constructor,   *)
(* selectFont and a first drawMarquee; the font selected is Font_blank, so   *)
(* that the screen stays blank whatever is drawn and a state is told by the  *)
(* marquee fields.                                                           *)

\* (amountX, amountY) passed to stepMarquee
StepAmounts == { <<-1, 0>>, <<40, -24>>, <<-50, 24>> }

\* displays of one panel and of two by two panels
StepTopologies == { <<1, 1>>, <<2, 2>> }

InitStep ==
    \E t \in StepTopologies, text \in MarqueeTexts :
       DMD419_marquee_drawn(t[1], t[2], Font_blank, text, 0, 0)

Step_stepMarquee == DMD419_stepMarquee_call(StepAmounts)

Step_selectFont == DMD419_selectFont_call(StepFonts, MaxGlyphCalls)

NextStep == Step_selectFont \/ Marquee_drawMarquee \/ Step_stepMarquee

SpecStep == InitStep /\ [][NextStep]_vars

\* ------------------------------------------------------------------------
\* Offsets after stepMarquee: claim C32
\* ------------------------------------------------------------------------

\* C32: after every stepMarquee(dx, dy) the marquee offsets are within
\* their wrap bounds, -marqueeWidth <= marqueeOffsetX <= 32 * DisplaysWide
\* and -marqueeHeight <= marqueeOffsetY <= 16 * DisplaysHigh, and the call
\* returns true exactly when at least one of the two offsets was reset by a
\* wrap in that call, i.e. is not the offset before the call plus the step.
C32_StepMarqueeBounds ==
    [][ (driver = "dmd419" /\ last'.op = "stepMarquee")
        => /\ -marquee'.marqueeWidth <= marquee'.marqueeOffsetX
           /\ marquee'.marqueeOffsetX <= 32 * dmd'.DisplaysWide
           /\ -marquee'.marqueeHeight <= marquee'.marqueeOffsetY
           /\ marquee'.marqueeOffsetY <= 16 * dmd'.DisplaysHigh
           /\ last'.ret
                = (\/ marquee'.marqueeOffsetX
                        # marquee.marqueeOffsetX + last'.x
                   \/ marquee'.marqueeOffsetY
                        # marquee.marqueeOffsetY + last'.y) ]_vars

\* a step that wrapped the text from below the display to above it and
\* returned true, and left the horizontal offset where the step put it
C32_Witness ==
    /\ driver = "dmd419"
    /\ last.op = "stepMarquee"
    /\ last.ret = TRUE
    /\ last.y > 0
    /\ marquee.marqueeOffsetY = -marquee.marqueeHeight
    /\ marquee.marqueeOffsetX > 0
    /\ marquee.marqueeOffsetX < 32 * dmd.DisplaysWide

----------------------------------------------------------------------------
(* The application: src/main.c.  The variable marquee holds the variables    *)
(* of main.c (globals and the locals of main) as a record; the field stream  *)
(* is the bytes still to arrive at the USART, the field pc the place of the  *)
(* main loop, the field tx the bytes of the report the main loop is sending  *)
(* that are still to be written to UDR, the field btn the button whose       *)
(* branch the button block has reached, and the fields completed and handed  *)
(* are history: the lines the receive interrupt has completed and the        *)
(* messages passed to updateDisplayMessage.  Strings are sequences of        *)
(* character codes; a char array is a sequence of its bytes.                 *)
(*                                                                           *)
(* The receive interrupt is taken between any two steps of the main loop.    *)
(* The steps of the message poll are the reads and writes of the variables   *)
(* the handler writes, then updateDisplayMessage replacing the text, then    *)
(* each byte of its report (USART_Transmit waits for UDRE with interrupts    *)
(* enabled).  The steps of the button block are: the sampling of the pins up *)
(* to the change a pressed button makes, each byte of that button's report,  *)
(* the assignment button_debounce_timer = 50, the change of the next pressed *)
(* button, and at last the assignments to the button_prev variables.  The    *)
(* steps of the frame are: vma419_clear, each iteration of the loop of       *)
(* vma419_font_draw_string (fields cursor_x and str), and for each cycle of  *)
(* the scan loop (field cycle) the assignment to scan_cycle with the row     *)
(* select, each spi_transfer with its wait for SPIF (field sent), the latch  *)
(* line driven high before _delay_us(10), the latch line driven low with the *)
(* output enabled before _delay_ms(1), the end of that delay; then the       *)
(* scroll update.  The field frame is history: the calls and line events of  *)
(* the frame under way.                                                      *)

UART_BUFFER_SIZE == 64

\* sizeof(uart_message), sizeof(new_message), sizeof(scroll_text)
MessageSize == 32

\* strlen of a char array, or its size when no NUL is in it
strlen(a) ==
    IF \E i \in 1..Len(a) : a[i] = 0
    THEN (CHOOSE i \in 1..Len(a) :
             a[i] = 0 /\ \A j \in 1..(i - 1) : a[j] # 0) - 1
    ELSE Len(a)

\* the string held in a char array
String(a) == SubSeq(a, 1, strlen(a))

\* a char array of n bytes holding the string s
CharArray(s, n) == [i \in 1..n |-> IF i <= Len(s) THEN s[i] ELSE 0]

\* the handler passing a completed line to the display itself
USART_RXC_vect_updating_display(m, received_char) ==
    IF received_char = 13 \/ received_char = 10
    THEN IF m.uart_rx_head # m.uart_rx_tail
         THEN LET count == (m.uart_rx_head - m.uart_rx_tail)
                               % UART_BUFFER_SIZE
                  msg_index == IF count < MessageSize - 1 THEN count
                               ELSE MessageSize - 1
                  copied ==
                      [i \in 1..MessageSize |->
                         IF i <= msg_index
                         THEN Load(m.uart_rx_buffer,
                                   (m.uart_rx_tail + i - 1)
                                       % UART_BUFFER_SIZE)
                         ELSE IF i = msg_index + 1 THEN 0
                         ELSE m.uart_message[i]]
              IN  [m EXCEPT !.uart_message = copied,
                            !.uart_message_ready = 1,
                            !.uart_rx_head = 0,
                            !.uart_rx_tail = 0,
                            !.completed = Append(@, String(copied)),
                            !.scroll_text = copied,
                            !.scroll_position = 32]
         ELSE m
    ELSE IF received_char = 8 \/ received_char = 127
    THEN IF m.uart_rx_head # m.uart_rx_tail
         THEN [m EXCEPT !.uart_rx_head =
                   (m.uart_rx_head - 1 + UART_BUFFER_SIZE)
                       % UART_BUFFER_SIZE]
         ELSE m
    ELSE IF received_char >= 32 /\ received_char <= 126
    THEN LET next_head == (m.uart_rx_head + 1) % UART_BUFFER_SIZE
         IN  IF next_head # m.uart_rx_tail
             THEN [m EXCEPT
                     !.uart_rx_buffer =
                         Store(@, m.uart_rx_head, received_char),
                     !.uart_rx_head = next_head]
             ELSE m
    ELSE m

\* ISR(USART_RXC_vect) for the byte received_char: the variables after the
\* handler (the handler runs with interrupts disabled)
USART_RXC_vect(m, received_char) ==
    IF received_char = 13 \/ received_char = 10
    THEN IF m.uart_rx_head # m.uart_rx_tail
         THEN LET count == (m.uart_rx_head - m.uart_rx_tail)
                               % UART_BUFFER_SIZE
                  msg_index == IF count < MessageSize - 1 THEN count
                               ELSE MessageSize - 1
                  copied ==
                      [i \in 1..MessageSize |->
                         IF i <= msg_index
                         THEN Load(m.uart_rx_buffer,
                                   (m.uart_rx_tail + i - 1)
                                       % UART_BUFFER_SIZE)
                         ELSE IF i = msg_index + 1 THEN 0
                         ELSE m.uart_message[i]]
              IN  [m EXCEPT !.uart_message = copied,
                            !.uart_message_ready = 1,
                            !.uart_rx_head = 0,
                            !.uart_rx_tail = 0,
                            !.completed = Append(@, String(copied))]
         ELSE m
    ELSE IF received_char = 8 \/ received_char = 127
    THEN IF m.uart_rx_head # m.uart_rx_tail
         THEN [m EXCEPT !.uart_rx_head =
                   (m.uart_rx_head - 1 + UART_BUFFER_SIZE)
                       % UART_BUFFER_SIZE]
         ELSE m
    ELSE IF received_char >= 32 /\ received_char <= 126
    THEN LET next_head == (m.uart_rx_head + 1) % UART_BUFFER_SIZE
         IN  IF next_head # m.uart_rx_tail
             THEN [m EXCEPT
                     !.uart_rx_buffer =
                         Store(@, m.uart_rx_head, received_char),
                     !.uart_rx_head = next_head]
             ELSE m
    ELSE m

\* the bytes ISR(USART_RXC_vect) transmits: the echo, a line end after a
\* completed line, the erase sequence after a backspace
USART_RXC_vect_transmits(m, received_char) ==
    <<received_char>>
    \o (IF (received_char = 13 \/ received_char = 10)
           /\ m.uart_rx_head # m.uart_rx_tail
        THEN <<13, 10>>
        ELSE IF (received_char = 8 \/ received_char = 127)
                /\ m.uart_rx_head # m.uart_rx_tail
        THEN <<8, 32, 8>>
        ELSE << >>)

\* updateDisplayMessage leaving no room for the space
updateDisplayMessage_text_no_room(message) ==
    LET cleared == memset(0, MessageSize)
        max_copy_len == MessageSize - 1
        msg_len == IF U8(strlen(message)) > max_copy_len THEN max_copy_len
                   ELSE U8(strlen(message))
    IN  [i \in 1..MessageSize |->
           IF i <= msg_len THEN message[i]
           ELSE IF i = msg_len + 1 THEN 32
           ELSE IF i = msg_len + 2 THEN 0
           ELSE cleared[i]]

\* updateDisplayMessage: scroll_text after the call
updateDisplayMessage_text(message) ==
    LET cleared == memset(0, MessageSize)
        max_copy_len == MessageSize - 2
        msg_len == IF U8(strlen(message)) > max_copy_len THEN max_copy_len
                   ELSE U8(strlen(message))
    IN  [i \in 1..MessageSize |->
           IF i <= msg_len THEN message[i]
           ELSE IF i = msg_len + 1 THEN 32
           ELSE IF i = msg_len + 2 THEN 0
           ELSE cleared[i]]

\* the bytes updateDisplayMessage transmits: "Updated: ", the new
\* scroll_text and "\r\n> "
updateDisplayMessage_transmits(message) ==
    <<85, 112, 100, 97, 116, 101, 100, 58, 32>>
    \o String(updateDisplayMessage_text(message))
    \o <<13, 10, 62, 32>>

\* one step of the message poll that opens the main loop, between two
\* points where the receive interrupt can be taken: uart_message_available
\* reads the flag, uart_get_message reads it again, strncpy reads
\* uart_message byte by byte (and pads new_message with NULs after the
\* first NUL read), uart_get_message ends the copy and clears the flag, and
\* updateDisplayMessage replaces the text by new_message and starts on its
\* report
main_message_step(m) ==
    CASE m.pc = "available" ->
           IF m.uart_message_ready # 0 THEN [m EXCEPT !.pc = "get"]
           ELSE [m EXCEPT !.pc = "buttons"]
      [] m.pc = "get" ->
           IF m.uart_message_ready # 0
           THEN [m EXCEPT !.pc = "copy", !.k = 0]
           ELSE [m EXCEPT !.pc = "update"]
      [] m.pc = "copy" ->
           LET c == Load(m.uart_message, m.k)
           IN  IF c = 0
               THEN [m EXCEPT
                       !.new_message =
                           [i \in 1..MessageSize |->
                              IF i > m.k /\ i <= MessageSize - 1 THEN 0
                              ELSE @[i]],
                       !.pc = "clear"]
               ELSE [m EXCEPT
                       !.new_message = Store(@, m.k, c),
                       !.k = m.k + 1,
                       !.pc = IF m.k + 1 = MessageSize - 1 THEN "clear"
                              ELSE "copy"]
      [] m.pc = "clear" ->
           [m EXCEPT !.new_message = Store(@, MessageSize - 1, 0),
                     !.uart_message_ready = 0,
                     !.pc = "update"]
      [] m.pc = "update" ->
           [updateDisplayMessage(m, strlen(m.new_message)) EXCEPT
              !.scroll_text = updateDisplayMessage_text(m.new_message),
              !.handed = Append(@, String(m.new_message)),
              !.run = -1,
              !.tx = updateDisplayMessage_transmits(m.new_message),
              !.pc = "report"]

\* USART_Transmit called by the main loop for the next byte of the report it
\* is sending: the byte is written to UDR.  After the last byte of the
\* report of updateDisplayMessage the button block is next, after the last
\* byte of the report of a button the assignment to button_debounce_timer
main_transmit(m) ==
    [m EXCEPT !.tx = Tail(@),
              !.pc = IF Len(m.tx) > 1 THEN @
                     ELSE IF @ = "report" THEN "buttons"
                     ELSE "debounce"]

\* the Speed Up button with the test for the fastest speed left out
main_speed_up_unchecked(scroll_speed) == U8(scroll_speed - 5)

\* main.c, the Speed Up button PC0: scroll_speed after an accepted press
main_speed_up(scroll_speed) ==
    IF scroll_speed > 5 THEN U8(scroll_speed - 5) ELSE scroll_speed

\* the two digits the button block transmits for a value: '0' + value / 10
\* and '0' + value % 10, each converted to char
main_buttons_digits(value) ==
    << U8(48 + (value \div 10)), U8(48 + (value % 10)) >>

\* main.c, "handle button presses": the test that opens the branch of button
\* i (1..5 for PC0, PC1, PC2, PC6, PC7; 0 is a pressed button)
main_buttons_pressed(m, i) ==
    m.button_prev[i] = 1 /\ m.button_current[i] = 0

\* main.c, "handle button presses": the variables after the change the
\* branch of button i makes before it sends its report
main_buttons_press(m, i) ==
    CASE i = 1 -> [m EXCEPT !.scroll_speed = main_speed_up(@)]
      [] i = 2 -> [m EXCEPT !.scroll_speed =
                               IF @ < 100 THEN U8(@ + 5) ELSE @]
      [] i = 3 -> main_toggle_direction(m)
      [] i = 4 -> [m EXCEPT !.text_y_offset =
                               IF @ > 0 THEN I8(@ - 1) ELSE @]
      [] i = 5 -> [m EXCEPT !.text_y_offset =
                               IF @ < 15 THEN I8(@ + 1) ELSE @]

\* main.c, "handle button presses": the bytes the branch of button i
\* transmits, m being the variables when the branch is entered
main_buttons_report(m, i) ==
    LET after == main_buttons_press(m, i)
    IN  CASE i = 1 ->
               IF m.scroll_speed > 5
               THEN <<83, 112, 101, 101, 100, 43, 58, 32>>
                    \o main_buttons_digits(after.scroll_speed)
                    \o <<13, 10, 62, 32>>
               ELSE <<83, 112, 101, 101, 100, 32, 77, 65, 88, 13, 10, 62,
                      32>>
          [] i = 2 ->
               IF m.scroll_speed < 100
               THEN <<83, 112, 101, 101, 100, 45, 58, 32>>
                    \o main_buttons_digits(after.scroll_speed)
                    \o <<13, 10, 62, 32>>
               ELSE <<83, 112, 101, 101, 100, 32, 77, 73, 78, 13, 10, 62,
                      32>>
          [] i = 3 ->
               IF after.scroll_direction < 0
               THEN <<68, 105, 114, 58, 32, 82, 62, 76, 13, 10, 62, 32>>
               ELSE <<68, 105, 114, 58, 32, 76, 62, 82, 13, 10, 62, 32>>
          [] i = 4 ->
               IF m.text_y_offset > 0
               THEN <<84, 101, 120, 116, 32, 85, 112, 58, 32, 89, 61>>
                    \o main_buttons_digits(after.text_y_offset)
                    \o <<13, 10, 62, 32>>
               ELSE <<84, 101, 120, 116, 32, 97, 116, 32, 84, 79, 80, 13,
                      10, 62, 32>>
          [] i = 5 ->
               IF m.text_y_offset < 15
               THEN <<84, 101, 120, 116, 32, 68, 111, 119, 110, 58, 32, 89,
                      61>>
                    \o main_buttons_digits(after.text_y_offset)
                    \o <<13, 10, 62, 32>>
               ELSE <<84, 101, 120, 116, 32, 97, 116, 32, 66, 79, 84, 84,
                      79, 77, 13, 10, 62, 32>>

\* main.c, "handle button presses", from the test of button `from` on: the
\* block runs to the change made by the first button from there that is
\* pressed, whose report is then to be sent, or, no such button being
\* pressed, to its end, where the levels sampled become the button_prev
\* variables.  The field run is history (a press of PC2 sets the position)
main_buttons_branch(m, from) ==
    LET pressed == { i \in from..5 : main_buttons_pressed(m, i) }
    IN  IF pressed = {}
        THEN [m EXCEPT !.button_prev = m.button_current,
                       !.btn = 0,
                       !.pc = "frame"]
        ELSE LET i == CHOOSE b \in pressed : \A c \in pressed : b <= c
                 after == main_buttons_press(m, i)
             IN  [after EXCEPT
                    !.tx = main_buttons_report(m, i),
                    !.btn = i,
                    !.run = IF i = 3
                            THEN NextRun(@, 0, after.scroll_position, FALSE)
                            ELSE @,
                    !.pc = "send"]

\* main.c, "handle button presses": one step of the block, between two
\* points where the receive interrupt can be taken.  At its start the block
\* counts button_debounce_timer down or, the timer being 0, reads the
\* levels `pins` of PC0, PC1, PC2, PC6 and PC7 and takes the branch of the
\* first pressed button; a report sent, it sets button_debounce_timer; then
\* it goes on with the next button
main_buttons_step(m, pins) ==
    CASE m.pc = "buttons" ->
           IF m.button_debounce_timer = 0
           THEN main_buttons_branch([m EXCEPT !.button_current = pins], 1)
           ELSE [m EXCEPT !.button_debounce_timer = U8(@ - 1),
                          !.pc = "frame"]
      [] m.pc = "debounce" ->
           [m EXCEPT !.button_debounce_timer = 50, !.pc = "branch"]
      [] m.pc = "branch" ->
           main_buttons_branch(m, m.btn + 1)

\* the variables of main.c when the main loop is entered: scroll_text holds
\* "WELCOME ERASMUS STUDENTS", new_message is not initialised, no button is
\* held down (button_current stands for the levels last sampled)
main_application ==
    [scroll_text |->
         CharArray(<<87, 69, 76, 67, 79, 77, 69, 32, 69, 82, 65, 83, 77,
                     85, 83, 32, 83, 84, 85, 68, 69, 78, 84, 83>>,
                   MessageSize),
     scroll_text_len |-> 24,
     scroll_position |-> 32,
     scroll_speed |-> 30,
     scroll_direction |-> -1,
     text_y_offset |-> 4,
     uart_rx_buffer |-> memset(0, UART_BUFFER_SIZE),
     uart_rx_head |-> 0,
     uart_rx_tail |-> 0,
     uart_message_ready |-> 0,
     uart_message |-> memset(0, MessageSize),
     new_message |-> malloc(MessageSize),
     refresh_counter |-> 0,
     button_prev |-> <<1, 1, 1, 1, 1>>,
     button_current |-> <<1, 1, 1, 1, 1>>,
     button_debounce_timer |-> 0,
     pc |-> "available",
     k |-> 0,
     cursor_x |-> 0,
     str |-> 0,
     cycle |-> 0,
     sent |-> 0,
     frame |-> << >>,
     tx |-> << >>,
     btn |-> 0,
     stream |-> << >>,
     completed |-> << >>,
     handed |-> << >>,
     quiet |-> 51,
     run |-> -1]

\* the bytes that arrive at the USART: none; two lines; a backspace on an empty
\* line, a control code, a byte above 127, an empty line, backspaces past
\* the start of the line, a delete, a line ended by a line feed; and a line
\* of the letter a longer than the receive buffer
ReceivedStreams ==
    { << >>,
      <<97, 98, 99, 13, 100, 101, 13>>,
      <<8, 1, 200, 13, 97, 8, 8, 98, 99, 127, 10>>,
      [i \in 1..(UART_BUFFER_SIZE + 2) |-> 97] \o <<13>> }

\* the display when the main loop is entered: the logo has been scanned,
\* last with phase 3, and the buffer cleared
main_display == [vma419_clear(InitialDisplay(1, 1)) EXCEPT !.scan_cycle = 3]

\* the handler taken for each byte of `received` in turn
RECURSIVE USART_RXC_vect_all(_, _)
USART_RXC_vect_all(m, received) ==
    IF received = << >> THEN m
    ELSE USART_RXC_vect_all(USART_RXC_vect(m, Head(received)),
                            Tail(received))

\* the message poll from its start to the button block, no byte arriving
RECURSIVE main_message_poll(_)
main_message_poll(m) ==
    IF m.pc = "buttons" THEN m
    ELSE IF m.pc = "report" THEN main_message_poll(main_transmit(m))
    ELSE main_message_poll(main_message_step(m))

\* the variables of main.c at the top of the main loop once the user has
\* brought scroll_speed down to 5 with PC0 and sent the line "HI", the text
\* "HI " has scrolled out to the left and is back at 32, and no button is
\* held down; the histories start here
main_application_HI ==
    [main_message_poll(USART_RXC_vect_all(main_application, <<72, 73, 13>>))
       EXCEPT !.scroll_speed = 5,
              !.pc = "available",
              !.completed = << >>,
              !.handed = << >>]

\* the application at the top of its main loop with the variables m of
\* main.c
main_loop_top(m) ==
    /\ driver = "vma419"
    /\ disp = main_display
    /\ lines = vma419_scan_lines(main_display, InitialLines(1, 1))
    /\ dmd = NoDMD
    /\ bus = << >>
    /\ last = Op("main", 0, 0, 0, 0, 0, 0)
    /\ prev = disp
    /\ before = NoBefore
    /\ nscans = 0
    /\ ntext = 0
    /\ marquee = m

\* main enters its loop, and the bytes of one of ReceivedStreams are on
\* their way
InitApp ==
    \E stream \in ReceivedStreams :
       main_loop_top([main_application EXCEPT !.stream = stream])

\* the receive interrupt for the next byte to arrive; last.arg is the byte,
\* bus the bytes transmitted
App_USART_RXC_vect ==
    /\ driver = "vma419"
    /\ marquee.stream # << >>
    /\ LET received_char == Head(marquee.stream)
       IN  /\ marquee' = [USART_RXC_vect(marquee, received_char) EXCEPT
                            !.stream = Tail(marquee.stream)]
           /\ bus' = USART_RXC_vect_transmits(marquee, received_char)
           /\ last' = Op("USART_RXC_vect", 0, 0, 0, 0, received_char, 0)
    /\ prev' = disp
    /\ before' = NoBefore
    /\ UNCHANGED <<driver, disp, dmd, lines, nscans, ntext>>

\* the places of the main loop in its message poll
MessagePoll == {"available", "get", "copy", "clear", "update"}

\* one step of the message poll that opens each iteration of the main loop
App_message ==
    /\ driver = "vma419"
    /\ marquee.pc \in MessagePoll
    /\ marquee' = main_message_step(marquee)
    /\ last' = Op("main_message", 0, 0, 0, 0, 0, 0)
    /\ bus' = << >>
    /\ prev' = disp
    /\ before' = NoBefore
    /\ UNCHANGED <<driver, disp, dmd, lines, nscans, ntext>>

\* the main loop writes the next byte of the report it is sending to UDR;
\* last.arg is the byte, and bus holds it
App_USART_Transmit ==
    /\ driver = "vma419"
    /\ marquee.pc \in {"report", "send"}
    /\ marquee' = main_transmit(marquee)
    /\ last' = Op("USART_Transmit", 0, 0, 0, 0, Head(marquee.tx), 0)
    /\ bus' = << Head(marquee.tx) >>
    /\ prev' = disp
    /\ before' = NoBefore
    /\ UNCHANGED <<driver, disp, dmd, lines, nscans, ntext>>

\* the levels of PC0, PC1, PC2, PC6, PC7 found by the button block: no
\* button down, one button down, two buttons down
ButtonSamples ==
    { <<1, 1, 1, 1, 1>>, <<0, 1, 1, 1, 1>>, <<1, 0, 1, 1, 1>>,
      <<1, 1, 0, 1, 1>>, <<1, 1, 1, 0, 1>>, <<1, 1, 1, 1, 0>>,
      <<0, 1, 1, 1, 0>> }

\* no button is touched; only the direction button is touched
ReleasedSamples == { <<1, 1, 1, 1, 1>> }
DirectionSamples == { <<1, 1, 1, 1, 1>>, <<1, 1, 0, 1, 1>> }

\* the main loop enters its button block with the pins at levels of
\* `samples`; last.arg is 1 when the buttons were sampled, last.x the value
\* of quiet before.  The field quiet is history: the number of times the
\* block has been entered since it last accepted a press (51 stands for
\* more than 50, or no press yet).
main_buttons_pass(samples) ==
    /\ driver = "vma419"
    /\ marquee.pc = "buttons"
    /\ \E pins \in samples :
          LET sampled == marquee.button_debounce_timer = 0
              after == main_buttons_step(marquee, pins)
              accepted == sampled /\ after.pc = "send"
          IN  /\ marquee' =
                   [after EXCEPT
                      !.quiet = IF accepted THEN 0
                                ELSE IF @ < 51 THEN @ + 1 ELSE @]
              /\ last' = Op("main_buttons", marquee.quiet, 0, 0, 0,
                            IF sampled THEN 1 ELSE 0, 0)
    /\ bus' = << >>
    /\ prev' = disp
    /\ before' = NoBefore
    /\ UNCHANGED <<driver, disp, dmd, lines, nscans, ntext>>

App_buttons == main_buttons_pass(ButtonSamples)
App_buttons_released == main_buttons_pass(ReleasedSamples)
App_buttons_direction == main_buttons_pass(DirectionSamples)

\* the button block goes on after the report of a button: it sets
\* button_debounce_timer, or takes the branch of the next pressed button
\* (or comes to its end); last.arg is the button whose report was sent
App_buttons_resume ==
    /\ driver = "vma419"
    /\ marquee.pc \in {"debounce", "branch"}
    /\ marquee' = main_buttons_step(marquee, marquee.button_current)
    /\ last' = Op("main_buttons_resume", 0, 0, 0, 0, marquee.btn, 0)
    /\ bus' = << >>
    /\ prev' = disp
    /\ before' = NoBefore
    /\ UNCHANGED <<driver, disp, dmd, lines, nscans, ntext>>

\* the main loop has run through MaxFrames iterations at most
MaxFrames == 52

\* main.c, "update the LED display": the display after vma419_clear,
\* vma419_font_draw_string and the four scans
main_frame(d, m) ==
    [vma419_font_draw_string(vma419_clear(d), m.scroll_position,
                             m.text_y_offset, String(m.scroll_text))
       EXCEPT !.scan_cycle = 3]

\* main.c, "update the LED display": the calls and line events, in order
main_frame_events(d, m) ==
    LET drawn == main_frame(d, m)
    IN  << <<"vma419_clear">>,
           <<"vma419_font_draw_string", m.scroll_position,
             m.text_y_offset>> >>
        \o vma419_scan_events([drawn EXCEPT !.scan_cycle = 0])
        \o vma419_scan_events([drawn EXCEPT !.scan_cycle = 1])
        \o vma419_scan_events([drawn EXCEPT !.scan_cycle = 2])
        \o vma419_scan_events([drawn EXCEPT !.scan_cycle = 3])

\* main.c, "update scrolling position": the text moves in this iteration
main_update_scroll_moves(m) == U16(m.refresh_counter + 1) >= m.scroll_speed

\* the variables of main.c after "update scrolling position", where the
\* next iteration starts with the message poll
main_frame_variables(m) ==
    LET updated == main_update_scroll(m)
    IN  [updated EXCEPT
           !.run = IF main_update_scroll_moves(m)
                   THEN NextRun(@, main_text_width(m),
                                updated.scroll_position,
                                m.scroll_direction = -1)
                   ELSE @,
           !.frame = << >>,
           !.pc = "available"]

\* the places of the main loop from "update the LED display" to its end
FramePlaces ==
    {"frame", "draw", "select", "shift", "latch", "enable", "delay", "scroll"}

\* main.c, from "update the LED display" to the end of the loop: one step of
\* the pass, between two points where the receive interrupt can be taken,
\* as it shows on the variables m of main.c, d being the display.  The steps
\* are: vma419_clear and the entry of vma419_font_draw_string (cursor_x is
\* its cursor, str the offset of its pointer into scroll_text); one
\* iteration of its loop, or the exit of the loop; then for each cycle
\*   "select"  the assignment to scan_cycle and the start of
\*             vma419_scan_display_quarter: output disabled, row selected;
\*   "shift"   one spi_transfer: a byte written to SPDR and the wait for
\*             SPIF (sent is the number of bytes shifted out in this scan);
\*   "latch"   the latch line driven high, before _delay_us(10);
\*   "enable"  the latch line driven low and the output enabled, the return
\*             of the scan, before _delay_ms(1);
\*   "delay"   the end of the delay, cycle++ and the test of the loop;
\* at last "update scrolling position".  The field frame is history: the
\* calls and line events of the pass so far
main_frame_step(d, m) ==
    CASE m.pc = "frame" ->
           [m EXCEPT !.cursor_x = m.scroll_position,
                     !.str = 0,
                     !.frame = << <<"vma419_clear">>,
                                  <<"vma419_font_draw_string",
                                    m.scroll_position, m.text_y_offset>> >>,
                     !.pc = "draw"]
      [] m.pc = "draw" ->
           LET c == Load(m.scroll_text, m.str)
           IN  IF c # 0 /\ m.cursor_x < 32
               THEN [m EXCEPT
                       !.cursor_x =
                           I16(@ + vma419_font_draw_char_ret(
                                       @, m.text_y_offset, c) + 1),
                       !.str = @ + 1]
               ELSE [m EXCEPT !.cursor_x = 0,
                              !.str = 0,
                              !.cycle = 0,
                              !.pc = "select"]
      [] m.pc = "select" ->
           IF d.frame_buffer = NULL THEN [m EXCEPT !.pc = "delay"]
           ELSE [m EXCEPT
                   !.frame = @ \o << <<"oe", 1>>,
                                     <<"a", m.cycle % 2>>,
                                     <<"b", (m.cycle \div 2) % 2>> >>,
                   !.sent = 0,
                   !.pc = IF 0 < U16(d.panels_wide * d.panels_high)
                          THEN "shift" ELSE "latch"]
      [] m.pc = "shift" ->
           [m EXCEPT
              !.frame =
                  Append(@, <<"spi", Load(d.frame_buffer,
                                          vma419_scan_order(d)[m.sent + 1])>>),
              !.sent = @ + 1,
              !.pc = IF m.sent + 1 < 16 * U16(d.panels_wide * d.panels_high)
                     THEN "shift" ELSE "latch"]
      [] m.pc = "latch" ->
           [m EXCEPT !.frame = Append(@, <<"latch", 1>>),
                     !.sent = 0,
                     !.pc = "enable"]
      [] m.pc = "enable" ->
           [m EXCEPT !.frame = @ \o << <<"latch", 0>>, <<"oe", 0>> >>,
                     !.pc = "delay"]
      [] m.pc = "delay" ->
           [m EXCEPT !.cycle = IF @ + 1 < 4 THEN @ + 1 ELSE 0,
                     !.pc = IF m.cycle + 1 < 4 THEN "select" ELSE "scroll"]
      [] m.pc = "scroll" -> main_frame_variables(m)

\* the same step as it shows on the display d and the lines l
main_frame_display(d, l, m) ==
    CASE m.pc = "frame" -> [display |-> vma419_clear(d), lines |-> l]
      [] m.pc = "draw" ->
           LET c == Load(m.scroll_text, m.str)
           IN  IF c # 0 /\ m.cursor_x < 32
               THEN [display |-> vma419_font_draw_char(
                                     d, m.cursor_x, m.text_y_offset, c),
                     lines |-> l]
               ELSE [display |-> d, lines |-> l]
      [] m.pc = "select" ->
           [display |-> [d EXCEPT !.scan_cycle = m.cycle],
            lines |-> IF d.frame_buffer = NULL THEN l
                      ELSE [select_row_pair(l, m.cycle) EXCEPT !.oe = 1]]
      [] m.pc = "latch" ->
           [display |-> d, lines |-> [l EXCEPT !.latch = 1]]
      [] m.pc = "enable" ->
           [display |-> vma419_scan_display_quarter(d),
            lines |-> [l EXCEPT !.latch = 0, !.oe = 0]]
      [] OTHER -> [display |-> d, lines |-> l]

\* that step as it shows on the variables of main.c
main_frame_turn ==
    /\ driver = "vma419"
    /\ marquee.pc \in FramePlaces
    /\ marquee' = main_frame_step(disp, marquee)

\* one step of the pass of the main loop from "update the LED display" to
\* its end.  After the last step, "update scrolling position", bus holds the
\* calls and line events of the whole pass, last.op is "main_frame", last.x
\* and last.y are the position of the text drawn, and last.arg is 1 when the
\* text moved; after every other step bus holds the calls and line events
\* of the step
main_frame_pass ==
    /\ main_frame_turn
    /\ LET after == main_frame_display(disp, lines, marquee)
       IN  /\ disp' = after.display
           /\ lines' = after.lines
    /\ bus' = IF marquee.pc = "scroll" THEN marquee.frame
              ELSE SubSeq(marquee'.frame, Len(marquee.frame) + 1,
                          Len(marquee'.frame))
    /\ last' = IF marquee.pc = "scroll"
               THEN Op("main_frame", marquee.scroll_position,
                       marquee.text_y_offset, 0, 0,
                       IF main_update_scroll_moves(marquee) THEN 1 ELSE 0,
                       0)
               ELSE Op("main_frame_step", marquee.scroll_position,
                       marquee.text_y_offset, 0, 0, 0, 0)
    /\ prev' = disp
    /\ before' = NoBefore
    /\ UNCHANGED <<driver, dmd, ntext>>

App_frame == main_frame_pass /\ UNCHANGED nscans

\* the steps of the pass in one of the first MaxFrames iterations; nscans
\* counts the passes begun
App_frame_counted ==
    /\ marquee.pc = "frame" => nscans < MaxFrames
    /\ main_frame_pass
    /\ nscans' = IF marquee.pc = "frame" THEN nscans + 1 ELSE nscans

NextUart ==
    \/ App_USART_RXC_vect
    \/ App_message
    \/ App_USART_Transmit
    \/ App_buttons_released
    \/ App_frame_counted

SpecUart == InitApp /\ [][NextUart]_vars

\* ------------------------------------------------------------------------
\* The message handed to the display: claim C33
\* ------------------------------------------------------------------------

\* C33: under every interleaving of the receive interrupt with the main
\* loop, each message the main loop hands to updateDisplayMessage is exactly
\* one complete line as assembled by the interrupt handler (the first 31
\* characters of the line at most), never a mixture of characters from two
\* lines.
C33_OneCompleteLine ==
    \A i \in 1..Len(marquee.handed) :
       \E j \in 1..Len(marquee.completed) :
          marquee.handed[i] = marquee.completed[j]

\* ------------------------------------------------------------------------
\* Buffer indices: claim C35
\* ------------------------------------------------------------------------

\* a char array that holds a NUL
Terminated(a) == \E i \in 1..Len(a) : a[i] = 0

\* the first n characters of a string
Truncated(s, n) == IF Len(s) > n THEN SubSeq(s, 1, n) ELSE s

\* C35: for any sequence of received bytes no buffer index leaves its
\* array: after every step uart_rx_tail is 0 and uart_rx_head is within
\* 0..63, a backspace on an empty line changes nothing, uart_message is
\* NUL-terminated with at most 31 characters, and scroll_text is
\* NUL-terminated with at most 31 characters, being after
\* updateDisplayMessage the message truncated to 30 characters plus one
\* trailing space.
C35_IndicesInRange ==
    [][ /\ marquee'.uart_rx_tail = 0
        /\ marquee'.uart_rx_head \in 0..(UART_BUFFER_SIZE - 1)
        /\ Len(marquee'.uart_rx_buffer) = UART_BUFFER_SIZE
        /\ (/\ last'.op = "USART_RXC_vect"
            /\ last'.arg \in {8, 127}
            /\ marquee.uart_rx_head = marquee.uart_rx_tail)
           => marquee' = [marquee EXCEPT !.stream = Tail(@)]
        /\ Terminated(marquee'.uart_message)
        /\ Len(marquee'.uart_message) = MessageSize
        /\ strlen(marquee'.uart_message) <= MessageSize - 1
        /\ Terminated(marquee'.scroll_text)
        /\ Len(marquee'.scroll_text) = MessageSize
        /\ strlen(marquee'.scroll_text) <= MessageSize - 1
        /\ (last'.op = "main_message" /\ marquee.pc = "update")
           => String(marquee'.scroll_text)
                = Truncated(marquee'.handed[Len(marquee'.handed)],
                            MessageSize - 2) \o <<32>> ]_vars

\* a line longer than the receive buffer has filled it, has been cut to 31
\* characters by the handler and to 30 characters and a space by
\* updateDisplayMessage
C35_Witness ==
    /\ last.op = "main_message"
    /\ marquee.handed # << >>
    /\ Len(marquee.handed[1]) = MessageSize - 1
    /\ strlen(marquee.scroll_text) = MessageSize - 1
    /\ marquee.scroll_text[MessageSize - 1] = 32
    /\ marquee.scroll_text[MessageSize - 2] = 97

\* the receive buffer is full: the handler has dropped a letter
C35_BufferFull ==
    /\ last.op = "USART_RXC_vect"
    /\ last.arg = 97
    /\ marquee.uart_rx_head = UART_BUFFER_SIZE - 1
    /\ Len(marquee.stream) = 1

----------------------------------------------------------------------------
(* The main loop never stops: its message poll, its transmissions, its       *)
(* button block and its frame are taken again and again (the transmitter     *)
(* becomes ready after every byte).  Nothing is assumed about when bytes     *)
(* arrive.  The loop starts with the text "HI " scrolling at speed 5, and    *)
(* two lines or one line are on their way.  The fairness of the frame is     *)
(* stated on the variables of main.c: a step of NextUartFair that changes    *)
(* marquee as main_frame_turn does is a step of App_frame, and App_frame     *)
(* can be taken exactly when main_frame_turn can.                            *)

FairStreams == { <<97, 98, 99, 13, 100, 101, 13>>, <<97, 13>> }

InitUartFair ==
    \E stream \in FairStreams :
       main_loop_top([main_application_HI EXCEPT !.stream = stream])

NextUartFair ==
    \/ App_USART_RXC_vect
    \/ App_message
    \/ App_USART_Transmit
    \/ App_buttons_released
    \/ App_frame

SpecUartFair ==
    /\ InitUartFair
    /\ [][NextUartFair]_vars
    /\ WF_vars(App_message)
    /\ WF_vars(App_USART_Transmit)
    /\ WF_vars(App_buttons_released)
    /\ WF_marquee(main_frame_turn)

\* ------------------------------------------------------------------------
\* No line is lost: claim C34
\* ------------------------------------------------------------------------

\* the handler has completed a line and no line end is still to arrive
LastLineCompleted ==
    /\ marquee.completed # << >>
    /\ \A i \in 1..Len(marquee.stream) : marquee.stream[i] \notin {13, 10}

\* the last completed line is the last message passed to
\* updateDisplayMessage, and is the scrolling text
LastLinePassed ==
    /\ marquee.handed # << >>
    /\ marquee.handed[Len(marquee.handed)]
         = marquee.completed[Len(marquee.completed)]
    /\ String(marquee.scroll_text)
         = Truncated(marquee.completed[Len(marquee.completed)],
                     MessageSize - 2) \o <<32>>

\* C34: no completed line is silently lost: if the interrupt handler
\* completes a non-empty line and no further line is completed afterwards,
\* then under every interleaving with the main loop that line is eventually
\* passed to updateDisplayMessage and becomes the scrolling text.
C34_NoLineLost == LastLineCompleted ~> LastLinePassed

----------------------------------------------------------------------------
(* The buttons: the main loop with its pins at any level of ButtonSamples in *)
(* each iteration, for its first MaxFrames iterations, no byte arriving.     *)
(* The loop starts as main enters it, or after presses that have brought     *)
(* speed, offset and direction to their limits.                              *)

\* scroll_speed, text_y_offset and scroll_direction when the loop starts
ButtonStarts == { <<30, 4, -1>>, <<5, 15, -1>>, <<100, 0, 1>> }

InitButtons ==
    \E start \in ButtonStarts :
       main_loop_top([main_application EXCEPT
                        !.scroll_speed = start[1],
                        !.text_y_offset = start[2],
                        !.scroll_direction = start[3]])

NextButtons ==
    \/ App_message
    \/ App_buttons
    \/ App_USART_Transmit
    \/ App_buttons_resume
    \/ App_frame_counted

SpecButtons == InitButtons /\ [][NextButtons]_vars

\* ------------------------------------------------------------------------
\* Scroll parameters and debounce: claim C36
\* ------------------------------------------------------------------------

\* C36: after any sequence of button presses and main-loop iterations
\* scroll_speed is a multiple of 5 within 5..100, text_y_offset is within
\* 0..15 and scroll_direction is -1 or +1; and after a press is accepted no
\* button is sampled again for the next 50 main-loop iterations.
C36_ParametersInRange ==
    /\ marquee.scroll_speed % 5 = 0
    /\ marquee.scroll_speed >= 5
    /\ marquee.scroll_speed <= 100
    /\ marquee.text_y_offset >= 0
    /\ marquee.text_y_offset <= 15
    /\ marquee.scroll_direction \in {-1, 1}
    /\ (last.op = "main_buttons" /\ last.arg = 1) => last.x >= 50

\* the buttons are sampled again in the 51st iteration after a press, and a
\* press is accepted there with the speed at its fastest, the text at the
\* bottom and the direction left to right
C36_Witness ==
    /\ last.op = "main_buttons"
    /\ last.arg = 1
    /\ last.x = 50
    /\ marquee.quiet = 0
    /\ marquee.pc = "send"
    /\ marquee.scroll_speed = 5
    /\ marquee.text_y_offset = 15
    /\ marquee.scroll_direction = 1

----------------------------------------------------------------------------
(* The main loop without end: message poll, button block and frame in turn,  *)
(* the direction button pressed or released at any iteration, bytes          *)
(* arriving at any time.  InitLoop is the main loop at its top after the     *)
(* user has brought scroll_speed down to 5 and the message "HI" has been     *)
(* shown and has scrolled out, when one more line is on its way.             *)

InitLoop ==
    main_loop_top([main_application_HI EXCEPT !.stream = <<97, 98, 99, 13>>])

NextLoop ==
    \/ App_USART_RXC_vect
    \/ App_message
    \/ App_USART_Transmit
    \/ App_buttons_direction
    \/ App_buttons_resume
    \/ App_frame

SpecLoop == InitLoop /\ [][NextLoop]_vars

\* ------------------------------------------------------------------------
\* Scroll position and scan phases of the main loop: claim C37
\* ------------------------------------------------------------------------

\* the events of a frame from the k-th of phase c on: each phase has 6
\* events and 16 bytes per panel, after the two calls that draw
FrameEvent(c, k) == bus[2 + (6 + 16 * Wide * High) * c + k]

\* C37: at the start of every main-loop iteration -6 * strlen(scroll_text)
\* <= scroll_position <= 32, for any sequence of scroll ticks, direction
\* toggles and message updates (which change the text length); and in each
\* iteration the display is scanned with phases 0, 1, 2, 3 exactly once
\* each, in that order, after the frame has been fully redrawn: the row
\* selects are those of the phases, and the bytes streamed in each phase are
\* the bytes of that phase in the redrawn buffer.
C37_PositionAndPhases ==
    /\ marquee.scroll_position >= -6 * strlen(marquee.scroll_text)
    /\ marquee.scroll_position <= 32
    /\ last.op = "main_frame"
       => /\ Len(bus) = 2 + 4 * (6 + 16 * Wide * High)
          /\ bus[1] = <<"vma419_clear">>
          /\ bus[2] = <<"vma419_font_draw_string", last.x, last.y>>
          /\ \A c \in 0..3 :
                /\ FrameEvent(c, 1) = <<"oe", 1>>
                /\ FrameEvent(c, 2) = <<"a", c % 2>>
                /\ FrameEvent(c, 3) = <<"b", c \div 2>>
                /\ \A k \in 1..(16 * Wide * High) :
                      FrameEvent(c, 3 + k)
                        = <<"spi", Load(FB, ScanIndices(disp, c)[k])>>
                /\ FrameEvent(c, 4 + 16 * Wide * High) = <<"latch", 1>>
          /\ Cardinality({k \in 1..Len(bus) : bus[k] = <<"latch", 1>>}) = 4
          /\ \A x \in 0..(Width - 1), y \in 0..(Height - 1) :
                Lit(FB, x, y)
                => /\ x >= last.x
                   /\ x < last.x + 6 * strlen(marquee.scroll_text)
                   /\ y >= last.y /\ y < last.y + 7

\* a frame has been drawn and scanned with the new, longer text at the
\* position where it has scrolled out to the left by its full width
C37_Witness ==
    /\ last.op = "main_frame"
    /\ marquee.scroll_text_len = 4
    /\ marquee.scroll_direction = -1
    /\ last.x = -24
    /\ marquee.scroll_position = -24
    /\ Len(bus) = 90

\* a frame with lit pixels, drawn while the text moves to the right
C37_LitFrame ==
    /\ last.op = "main_frame"
    /\ marquee.scroll_direction = 1
    /\ \E i \in DOMAIN FB : FB[i] # 0

\* ------------------------------------------------------------------------
\* The interrupt handler and the frame buffer: claim C38
\* ------------------------------------------------------------------------

\* the variables of main.c other than the receive buffer, its indices,
\* uart_message and the ready flag (and the bytes still to arrive)
OutsideUart(m) ==
    [f \in DOMAIN m \ {"uart_rx_buffer", "uart_rx_head", "uart_rx_tail",
                       "uart_message", "uart_message_ready", "stream",
                       "completed"} |-> m[f]]

\* C38: in the application the frame buffer is never accessed from
\* interrupt context: the receive interrupt, the only handler, changes only
\* the UART buffer, its indices, uart_message and the ready flag, and leaves
\* the frame buffer, scan_cycle, the display lines, scroll_text and
\* scroll_position as they are, at whatever step of the main loop it is
\* taken; so that a draw or a scan pass it interrupts meets no other access
\* to the frame buffer: every pass of the main loop, with the handler taken
\* between any of its steps, ends with the buffer and the line events of the
\* pass made without interruption.
C38_HandlerKeepsDisplay ==
    [][ /\ last'.op = "USART_RXC_vect"
           => /\ disp' = disp
              /\ lines' = lines
              /\ marquee'.scroll_text = marquee.scroll_text
              /\ marquee'.scroll_position = marquee.scroll_position
              /\ OutsideUart(marquee') = OutsideUart(marquee)
        /\ last'.op = "main_frame"
           => /\ disp' = main_frame(disp, marquee)
              /\ bus' = main_frame_events(disp, marquee) ]_vars

\* the handler has completed a line inside a scan of the main loop, while
\* the main loop waits for SPIF: the output is disabled and the row of phase
\* 1 selected, 6 of the 16 bytes of a frame with lit pixels have been shifted
\* out and 10 are still to be
C38_Witness ==
    /\ last.op = "USART_RXC_vect"
    /\ last.arg = 13
    /\ marquee.uart_message_ready = 1
    /\ marquee.pc = "shift"
    /\ marquee.sent = 6
    /\ Len(marquee.frame) = 2 + 22 + 3 + 6
    /\ disp.scan_cycle = 1
    /\ lines.oe = 1 /\ lines.a = 1 /\ lines.b = 0 /\ lines.latch = 0
    /\ marquee.scroll_position < 32
    /\ \E i \in DOMAIN FB : FB[i] # 0

\* the handler has stored a byte inside the latch pulse of a scan, in the
\* _delay_us(10): the latch line is high and the output still disabled
C38_InsideLatch ==
    /\ last.op = "USART_RXC_vect"
    /\ last.arg = 98
    /\ marquee.pc = "enable"
    /\ marquee.cycle = 2
    /\ lines.latch = 1 /\ lines.oe = 1
    /\ marquee.frame[Len(marquee.frame)] = <<"latch", 1>>

\* the handler has stored a byte inside a draw of the main loop: the first
\* character of the text is in the buffer, the next is still to be drawn
C38_InsideDraw ==
    /\ last.op = "USART_RXC_vect"
    /\ last.arg = 97
    /\ marquee.pc = "draw"
    /\ marquee.str = 1
    /\ marquee.cursor_x < 32
    /\ marquee.scroll_text[2] # 0
    /\ \E i \in DOMAIN FB : FB[i] # 0

----------------------------------------------------------------------------
(* The state machine of scrolling text.  With the C++ library InitMarquee is *)
(* the state after the constructor, selectFont and a first drawMarquee at    *)
(* (0, 0), the text is stepped one pixel to the left or to the right, and    *)
(* selectFont is called again between the steps, MaxGlyphCalls times at      *)
(* most;                                                                     *)
(* with the C driver it is the main loop of main.c at its top with the text  *)
(* "HI " and scroll_speed 5, no byte arriving, the direction button pressed  *)
(* or released at any iteration.                                             *)

InitMarquee ==
    /\ driver \in {"vma419", "dmd419"}
    /\ \/ \E t \in GlyphTopologies,
             text \in MarqueeTexts, font \in MarqueeFonts :
             DMD419_marquee_drawn(t[1], t[2], font, text, 0, 0)
       \/ main_loop_top(main_application_HI)

NextMarquee ==
    \/ Marquee_selectFont
    \/ Marquee_stepMarquee
    \/ App_message
    \/ App_USART_Transmit
    \/ App_buttons_direction
    \/ App_buttons_resume
    \/ App_frame

SpecMarquee == InitMarquee /\ [][NextMarquee]_vars

\* ------------------------------------------------------------------------
\* Scrolling text: claim C20
\* ------------------------------------------------------------------------

\* the horizontal offset of the scrolling text and the width of the text
OffsetX ==
    IF driver = "dmd419" THEN marquee.marqueeOffsetX
    ELSE marquee.scroll_position
TextWidth ==
    IF driver = "dmd419" THEN marquee.marqueeWidth
    ELSE 6 * marquee.scroll_text_len

\* C20: with text width W, stepping one pixel to the left repeatedly from
\* horizontal offset 0 wraps nowhere on the way to offset -W, which is
\* reached after exactly W steps (after k <= W steps the offset is -k), and
\* the step after that sets the offset to the display width, 32 times the
\* number of panels across; for DMD419::stepMarquee(-1, 0) and for
\* scroll_position of the main loop with scroll_direction = -1.
C20_MarqueeWrap ==
    /\ (marquee.run >= 0 /\ marquee.run <= TextWidth)
       => OffsetX = -marquee.run
    /\ (marquee.run >= 1 /\ marquee.run <= TextWidth
          /\ last.op = "stepMarquee" /\ marquee.marqueeOffsetY = 0)
       => last.ret = FALSE
    /\ marquee.run = TextWidth + 1
       => OffsetX = 32 * Wide

\* the text has moved W > 0 steps to the left from offset 0 and the next
\* step has wrapped
C20_Witness ==
    /\ driver = "dmd419"
    /\ last.op = "stepMarquee" /\ last.x = -1 /\ last.y = 0
    /\ marquee.marqueeWidth > 0
    /\ marquee.run = marquee.marqueeWidth + 1
    /\ marquee.marqueeOffsetX = 32 * dmd.DisplaysWide
    /\ last.ret = TRUE

\* the main loop has moved the text W > 0 steps to the left from position 0
\* and the next move has wrapped to 32
C20_MainLoopWrap ==
    /\ driver = "vma419"
    /\ last.op = "main_frame" /\ last.arg = 1
    /\ marquee.scroll_direction = -1
    /\ marquee.run = 6 * marquee.scroll_text_len + 1
    /\ marquee.scroll_text_len > 0
    /\ marquee.scroll_position = 32

====
